---- MODULE Spec2Model ----
(***************************************************************************)
(* A model of the page analyzer of web-analyzer (package pkg/analyzer).    *)
(*                                                                         *)
(* The document analyzer (analyzeDocument / traverseNode / processLink /   *)
(* isLoginForm / detectHTMLVersion / extractLinks) is modelled over node   *)
(* trees with the FirstChild / NextSibling references of html.Node; text   *)
(* is kept as strings and the string functions of the source (ToLower,     *)
(* TrimSpace, Contains, url.Parse, ResolveReference, String) are computed  *)
(* character by character.                                                 *)
(*                                                                         *)
(* Spec runs the two traversals on a fetched page.  SpecURL runs           *)
(* AnalyzeURL from its call to its return: address validation, fetch,      *)
(* the traversals, and the worker pool of checkLinksAccessibility with     *)
(* its goroutines interleaved and the context cancelled at any point;      *)
(* FairSpecURL adds a scheduler that lets the goroutines of the pool run.  *)
(* SpecCheck calls checkLinksAccessibility directly on a list of targets,  *)
(* the empty one included.  SpecProbe follows one call of checkSingleLink  *)
(* request by request through the redirects of the target.  SpecServe      *)
(* runs ServeAnalyze of internal/handlers around AnalyzeURL, from the      *)
(* request to the JSON record written.  FairSpecCheck is SpecCheck under   *)
(* a scheduler that lets the call and its goroutines run.  SpecShared      *)
(* interleaves two calls of AnalyzeURL on one Analyzer over a heap of the  *)
(* objects they allocate.                                                  *)
(***************************************************************************)
EXTENDS Integers, Sequences, FiniteSets, TLC

VARIABLES
    targetURL,  \* the address AnalyzeURL was called with (normalized once parsed)
    doc,        \* the parsed node tree: node id -> html.Node (id 1 is the root)
    baseURL,    \* parsedURL of AnalyzeURL: the page's own address, parsed
    result,     \* the *Result under construction
    stack,      \* pending traverseNode calls (node ids), innermost first
    visited,    \* node ids in the order traverseNode entered them
    links,      \* the []string returned by extractLinks
    pc,         \* position of AnalyzeURL
    ret,        \* what AnalyzeURL returned: (*Result or nil, error or nil)
    config,     \* a.config: MaxWorkers
    ctxDone,    \* ctx.Done() is closed: the request was cancelled or timed out
    unreachable,\* the link targets whose probe fails while the links are checked
    jobs,       \* the buffer of the jobs channel
    jobsClosed, \* close(jobs) was called
    results,    \* the buffer of the results channel
    resultsClosed, \* close(results) was called
    wg,         \* the counter of the sync.WaitGroup
    workers,    \* worker id -> where the worker goroutine is and the url it holds
    sender,     \* the job-sending goroutine: started, next index into links, returned
    inaccessible, \* the collector's count of results that were false
    processed,  \* the collector's count of results
    probed,     \* the urls checkSingleLink was called with, in the order of the calls
    probe,      \* one call of checkSingleLink followed request by request
    request,    \* r of ServeAnalyze: the method and the body of the request
    written,    \* what ServeAnalyze wrote to w: the status and the JSON record
    heap,       \* the objects allocated by concurrent calls, by address
    calls       \* concurrent calls of AnalyzeURL: position, locals and references

docVars == <<targetURL, doc, baseURL, result, stack, visited, links>>

probeVars ==
    <<unreachable, jobs, jobsClosed, results, resultsClosed, wg, workers, sender,
      inaccessible, processed, probed>>

\* the request served and the response to it
serveVars == <<request, written>>

\* the calls sharing one Analyzer and the objects they allocated
sharedVars == <<heap, calls>>

vars ==
    <<docVars, pc, ret, config, ctxDone, probeVars, probe, serveVars, sharedVars>>

-----------------------------------------------------------------------------
(* Bounds of the model.                                                    *)

\* non-root nodes of a document drawn over the small mixed alphabet
MaxNodes == 3
\* non-root nodes of a document drawn over the anchor alphabet
MaxLinkNodes == 2
\* non-root nodes of a document drawn over the form alphabet
MaxFormNodes == 3
\* tokens a doctype literal is composed of
MaxDoctypeTokens == 3
\* non-root nodes of a page analysed end to end, link check included
MaxPageNodes == 2
\* the largest configured MaxWorkers
MaxConfiguredWorkers == 2
\* non-root nodes of a document drawn over the title alphabet
MaxTitleNodes == 4
\* targets in a list checkLinksAccessibility is called with
MaxTargets == 2
\* redirections in the chain of answers a probed target gives
MaxHops == 3
\* the largest configured MaxRedirects
MaxRedirectCeiling == 2
\* non-root nodes of a page analysed for a served request
MaxServedNodes == 1
\* links of a page analysed by one of several concurrent calls
MaxCallLinks == 1
\* non-root nodes of a document drawn over the login-form alphabet
MaxLoginNodes == 4

-----------------------------------------------------------------------------
(* Strings: package strings.                                               *)

Max(a, b) == IF a >= b THEN a ELSE b

\* maxWorkers := len(links), whatever the configured limit
MinSecond(a, b) == b

Min(a, b) == IF a <= b THEN a ELSE b

\* the elements of a sequence
Range(f) == {f[i] : i \in DOMAIN f}

CharAt(s, i) == SubSeq(s, i, i)

Upper == <<"A","B","C","D","E","F","G","H","I","J","K","L","M",
           "N","O","P","Q","R","S","T","U","V","W","X","Y","Z">>

Lower == <<"a","b","c","d","e","f","g","h","i","j","k","l","m",
           "n","o","p","q","r","s","t","u","v","w","x","y","z">>

Digits == {"0","1","2","3","4","5","6","7","8","9"}

IsLetter(c) == \E i \in 1..26 : c = Upper[i] \/ c = Lower[i]

LowerChar(c) ==
    IF \E i \in 1..26 : c = Upper[i]
    THEN Lower[CHOOSE i \in 1..26 : c = Upper[i]]
    ELSE c

RECURSIVE ToLower(_)
ToLower(s) ==
    IF s = "" THEN ""
    ELSE LowerChar(CharAt(s, 1)) \o ToLower(SubSeq(s, 2, Len(s)))

IsSpace(c) == c \in {" ", "\t", "\n", "\r"}

RECURSIVE TrimLeft(_)
TrimLeft(s) ==
    IF s # "" /\ IsSpace(CharAt(s, 1)) THEN TrimLeft(SubSeq(s, 2, Len(s))) ELSE s

RECURSIVE TrimRight(_)
TrimRight(s) ==
    IF s # "" /\ IsSpace(CharAt(s, Len(s)))
    THEN TrimRight(SubSeq(s, 1, Len(s) - 1))
    ELSE s

\* strings.TrimSpace that leaves trailing space in place
TrimSpaceLeading(s) == TrimLeft(s)

TrimSpace(s) == TrimRight(TrimLeft(s))

HasPrefix(s, p) == Len(s) >= Len(p) /\ SubSeq(s, 1, Len(p)) = p

\* strings.Index, 1-based; 0 when sub does not occur
Index(s, sub) ==
    LET hits == {i \in 1..(Len(s) - Len(sub) + 1) : SubSeq(s, i, i + Len(sub) - 1) = sub}
    IN IF hits = {} THEN 0 ELSE CHOOSE i \in hits : \A j \in hits : i <= j

LastIndex(s, sub) ==
    LET hits == {i \in 1..(Len(s) - Len(sub) + 1) : SubSeq(s, i, i + Len(sub) - 1) = sub}
    IN IF hits = {} THEN 0 ELSE CHOOSE i \in hits : \A j \in hits : i >= j

Contains(s, sub) == Index(s, sub) # 0

\* strings.Cut: <<before, after, found>>; i is the index of sep in s
CutAt(s, sep, i) ==
    IF i = 0 THEN <<s, "", FALSE>>
    ELSE <<SubSeq(s, 1, i - 1), SubSeq(s, i + Len(sep), Len(s)), TRUE>>

Cut(s, sep) == CutAt(s, sep, Index(s, sep))

-----------------------------------------------------------------------------
(* Addresses: package net/url, as used by processLink, extractLinksFromNode *)
(* and AnalyzeURL.  A parsed address is the url.URL record.  Left out of    *)
(* the parser: userinfo, IPv6 literals, percent-escapes and control bytes   *)
(* (no address of the model contains '@', '[', '%' or a control byte) and   *)
(* dot-segment removal (no path of the model has a "." or ".." segment).    *)

NoURL ==
    [Scheme |-> "", Opaque |-> "", Host |-> "", Path |-> "", RawQuery |-> "",
     ForceQuery |-> FALSE, Fragment |-> "", OmitHost |-> FALSE]

\* url.getScheme: [scheme, rest, err]
RECURSIVE getSchemeFrom(_, _)
getSchemeFrom(rawURL, i) ==
    IF i > Len(rawURL) THEN [scheme |-> "", rest |-> rawURL, err |-> FALSE]
    ELSE LET c == CharAt(rawURL, i)
         IN CASE IsLetter(c) -> getSchemeFrom(rawURL, i + 1)
              [] c \in Digits \cup {"+", "-", "."} ->
                    IF i = 1 THEN [scheme |-> "", rest |-> rawURL, err |-> FALSE]
                    ELSE getSchemeFrom(rawURL, i + 1)
              [] c = ":" ->
                    IF i = 1 THEN [scheme |-> "", rest |-> "", err |-> TRUE]
                    ELSE [scheme |-> SubSeq(rawURL, 1, i - 1),
                          rest |-> SubSeq(rawURL, i + 1, Len(rawURL)), err |-> FALSE]
              [] OTHER -> [scheme |-> "", rest |-> rawURL, err |-> FALSE]

getScheme(rawURL) == getSchemeFrom(rawURL, 1)

\* url.validOptionalPort applied to the part of the host from its last ':'
validOptionalPort(port) ==
    \/ port = ""
    \/ /\ CharAt(port, 1) = ":"
       /\ \A i \in 2..Len(port) : CharAt(port, i) \in Digits

\* url.parseHost (no brackets): the error of an invalid port; i is the index
\* of the host's last ':'
parseHostErrAt(host, i) == i # 0 /\ ~validOptionalPort(SubSeq(host, i, Len(host)))

parseHostErr(host) == parseHostErrAt(host, LastIndex(host, ":"))

ParseError == [err |-> TRUE, url |-> NoURL]

\* url.parse, "//authority/path": parseAuthority on the authority
parseAuthority(u, authority, path) ==
    IF parseHostErr(authority) THEN ParseError
    ELSE [err |-> FALSE, url |-> [u EXCEPT !.Host = authority, !.Path = path]]

\* url.parse, the rest after "//" is cut at its first '/' (index i)
parseAuthorityAt(u, rest, i) ==
    IF i > 0 THEN parseAuthority(u, SubSeq(rest, 1, i - 1), SubSeq(rest, i, Len(rest)))
    ELSE parseAuthority(u, rest, "")

\* url.parse once scheme and query are in u: opaque, authority or path
parseRest(u, rest) ==
    IF ~HasPrefix(rest, "/") /\ u.Scheme # ""
    THEN [err |-> FALSE, url |-> [u EXCEPT !.Opaque = rest]]
    ELSE IF ~HasPrefix(rest, "/") /\ Contains(Cut(rest, "/")[1], ":")
    THEN ParseError
    ELSE IF (u.Scheme # "" \/ ~HasPrefix(rest, "///")) /\ HasPrefix(rest, "//")
    THEN parseAuthorityAt(u, SubSeq(rest, 3, Len(rest)),
                          Index(SubSeq(rest, 3, Len(rest)), "/"))
    ELSE [err |-> FALSE,
          url |-> [u EXCEPT !.Path = rest,
                            !.OmitHost = (u.Scheme # "" /\ HasPrefix(rest, "/"))]]

\* url.parse, rest, url.RawQuery, _ = strings.Cut(rest, "?")
parseCutQuery(scheme, qc) ==
    parseRest([NoURL EXCEPT !.Scheme = scheme, !.RawQuery = qc[2]], qc[1])

\* url.parse, the query: a lone trailing '?' sets ForceQuery
parseQuery(scheme, rest) ==
    IF Len(rest) > 0 /\ Index(rest, "?") = Len(rest)
    THEN parseRest([NoURL EXCEPT !.Scheme = scheme, !.ForceQuery = TRUE],
                   SubSeq(rest, 1, Len(rest) - 1))
    ELSE parseCutQuery(scheme, Cut(rest, "?"))

\* url.parse after getScheme returned gs
parseScheme(rawURL, gs) ==
    IF gs.err THEN ParseError
    ELSE IF rawURL = "*" THEN [err |-> FALSE, url |-> [NoURL EXCEPT !.Path = "*"]]
    ELSE parseQuery(ToLower(gs.scheme), gs.rest)

\* url.parse(rawURL, viaRequest = false): [err, url]
parse(rawURL) == parseScheme(rawURL, getScheme(rawURL))

\* url.setFragment on the outcome of url.parse
setFragment(p, frag) ==
    IF p.err THEN p ELSE [err |-> FALSE, url |-> [p.url EXCEPT !.Fragment = frag]]

\* url.Parse after u, frag, _ := strings.Cut(rawURL, "#")
parseFragment(fc) == setFragment(parse(fc[1]), fc[2])

\* url.Parse: [err, url]
Parse(rawURL) == parseFragment(Cut(rawURL, "#"))

\* url.resolvePath, the joined path made to start with '/'
rooted(full) ==
    IF full = "" THEN ""
    ELSE IF CharAt(full, 1) = "/" THEN full ELSE "/" \o full

\* url.resolvePath without dot segments
resolvePath(base, ref) ==
    IF ref = "" THEN rooted(base)
    ELSE IF CharAt(ref, 1) # "/"
    THEN rooted(SubSeq(base, 1, LastIndex(base, "/")) \o ref)
    ELSE rooted(ref)

\* (*URL).ResolveReference
ResolveReference(u, ref) ==
    LET url0 == IF ref.Scheme = "" THEN [ref EXCEPT !.Scheme = u.Scheme] ELSE ref
    IN IF ref.Scheme # "" \/ ref.Host # ""
       THEN [url0 EXCEPT !.Path = resolvePath(ref.Path, "")]
       ELSE IF ref.Opaque # ""
       THEN [url0 EXCEPT !.Host = "", !.Path = ""]
       ELSE LET url1 ==
                    IF ref.Path = "" /\ ~ref.ForceQuery /\ ref.RawQuery = ""
                    THEN [url0 EXCEPT !.RawQuery = u.RawQuery,
                                      !.Fragment = IF ref.Fragment = ""
                                                   THEN u.Fragment ELSE @]
                    ELSE url0
            IN IF ref.Path = "" /\ u.Opaque # ""
               THEN [url1 EXCEPT !.Opaque = u.Opaque, !.Host = "", !.Path = ""]
               ELSE [url1 EXCEPT !.Host = u.Host,
                                 !.Path = resolvePath(u.Path, ref.Path)]

\* (*URL).String
String(u) ==
    LET s1 == IF u.Scheme # "" THEN u.Scheme \o ":" ELSE ""
        s2 == IF u.Opaque # "" THEN s1 \o u.Opaque
              ELSE LET h == IF (u.Scheme # "" \/ u.Host # "")
                               /\ ~(u.OmitHost /\ u.Host = "")
                               /\ (u.Host # "" \/ u.Path # "")
                            THEN s1 \o "//" \o u.Host
                            ELSE s1
                       sl == IF u.Path # "" /\ CharAt(u.Path, 1) # "/" /\ u.Host # ""
                             THEN h \o "/" ELSE h
                       dot == IF sl = "" /\ Contains(Cut(u.Path, "/")[1], ":")
                              THEN "./" ELSE sl
                   IN dot \o u.Path
        s3 == IF u.ForceQuery \/ u.RawQuery # "" THEN s2 \o "?" \o u.RawQuery ELSE s2
    IN IF u.Fragment # "" THEN s3 \o "#" \o u.Fragment ELSE s3

-----------------------------------------------------------------------------
(* Node trees: html.Node with Type, Data, Attr, FirstChild, NextSibling.    *)
(* Node ids are 1..Len(doc); 0 is the nil reference; node 1 is the          *)
(* DocumentNode html.Parse returns.                                        *)

Attribute(key, val) == [Key |-> key, Val |-> val]

Element(data, attr) == [Type |-> "ElementNode", Data |-> data, Attr |-> attr]

Text(data) == [Type |-> "TextNode", Data |-> data, Attr |-> <<>>]

Doctype(data) == [Type |-> "DoctypeNode", Data |-> data, Attr |-> <<>>]

DocumentRoot == [Type |-> "DocumentNode", Data |-> "", Attr |-> <<>>]

\* nodes that html.Parse never gives children
IsLeaf(lab) == lab.Type \in {"TextNode", "DoctypeNode"} \/ lab.Data = "input"

\* parent references of n nodes below the root: a node's parent precedes it
Parents(n) == {par \in [2..(n + 1) -> 1..n] : \A j \in 2..(n + 1) : par[j] < j}

SetMin(S) == CHOOSE x \in S : \A y \in S : x <= y

\* the tree with labels lab and parents par; siblings are ordered by id
BuildDoc(n, par, lab) ==
    [i \in 1..(n + 1) |->
        LET kids == {j \in 2..(n + 1) : par[j] = i}
            later == IF i = 1 THEN {}
                     ELSE {j \in 2..(n + 1) : par[j] = par[i] /\ j > i}
            me == IF i = 1 THEN DocumentRoot ELSE lab[i]
        IN [Type |-> me.Type, Data |-> me.Data, Attr |-> me.Attr,
            FirstChild |-> IF kids = {} THEN 0 ELSE SetMin(kids),
            NextSibling |-> IF later = {} THEN 0 ELSE SetMin(later)]]

\* html.Parse gives no children to a text, doctype or input node
WellFormed(n, par, lab) ==
    \A j \in 2..(n + 1) : IF par[j] = 1 THEN TRUE ELSE ~IsLeaf(lab[par[j]])

\* for c := n.FirstChild; c != nil; c = c.NextSibling: the children, in order
RECURSIVE SiblingsFrom(_, _)
SiblingsFrom(d, c) == IF c = 0 THEN <<>> ELSE <<c>> \o SiblingsFrom(d, d[c].NextSibling)

Children(d, n) == SiblingsFrom(d, d[n].FirstChild)

-----------------------------------------------------------------------------
(* The Result record and its heading map.                                  *)

EmptyMap == [k \in {} |-> 0]

\* result := &Result{URL: targetURL, Headings: make(map[string]int)}
NewResult(address) ==
    [URL |-> address, HTMLVersion |-> "", Title |-> "", Headings |-> EmptyMap,
     InternalLinks |-> 0, ExternalLinks |-> 0, InaccessibleLinks |-> 0,
     HasLoginForm |-> FALSE, Error |-> ""]

\* m[k] of a Go map: the zero value for an absent key
MapGet(m, k) == IF k \in DOMAIN m THEN m[k] ELSE 0

\* m[k] = 1 where the source has m[k]++
MapIncrementOverwrite(m, k) == [x \in DOMAIN m \cup {k} |-> IF x = k THEN 1 ELSE m[x]]

\* m[k]++ of a Go map: an absent key is created
MapIncrement(m, k) ==
    [x \in DOMAIN m \cup {k} |-> IF x = k THEN MapGet(m, k) + 1 ELSE m[x]]

-----------------------------------------------------------------------------
(* detectHTMLVersion, isLoginForm / checkFormFields, processLink.          *)

\* detectHTMLVersion with the "html 4" test ahead of the "xhtml" test
detectHTMLVersionHTML4First(doctype) ==
    LET d == ToLower(TrimSpace(doctype))
    IN IF d = "html" THEN "HTML5"
       ELSE IF Contains(d, "html 4") THEN "HTML 4.01"
       ELSE IF Contains(d, "xhtml") THEN "XHTML"
       ELSE "HTML5"

detectHTMLVersion(doctype) ==
    LET d == ToLower(TrimSpace(doctype))
    IN IF d = "html" THEN "HTML5"
       ELSE IF Contains(d, "xhtml") THEN "XHTML"
       ELSE IF Contains(d, "html 4") THEN "HTML 4.01"
       ELSE "HTML5"

\* the attribute loop of checkFormFields: the last type / name attribute wins
RECURSIVE AttrLower(_, _, _, _)
AttrLower(attr, key, i, acc) ==
    IF i > Len(attr) THEN acc
    ELSE AttrLower(attr, key, i + 1,
                   IF attr[i].Key = key THEN ToLower(attr[i].Val) ELSE acc)

\* checkFormFields on node n and, recursively, its children; the two flags
\* *hasPassword and *hasUsername are threaded through as a record
RECURSIVE checkFormFields(_, _, _)
RECURSIVE checkFormFieldsOver(_, _, _)
checkFormFields(d, n, flags) ==
    LET isInput == d[n].Type = "ElementNode" /\ d[n].Data = "input"
        inputType == AttrLower(d[n].Attr, "type", 1, "")
        inputName == AttrLower(d[n].Attr, "name", 1, "")
        f1 == IF isInput /\ inputType = "password"
              THEN [flags EXCEPT !.hasPassword = TRUE] ELSE flags
        f2 == IF /\ isInput
                 /\ inputType \in {"text", "email", ""}
                 /\ \/ Contains(inputName, "user")
                    \/ Contains(inputName, "email")
                    \/ Contains(inputName, "login")
              THEN [f1 EXCEPT !.hasUsername = TRUE] ELSE f1
    IN checkFormFieldsOver(d, d[n].FirstChild, f2)

checkFormFieldsOver(d, c, flags) ==
    IF c = 0 THEN flags
    ELSE checkFormFieldsOver(d, d[c].NextSibling, checkFormFields(d, c, flags))

NoFields == [hasPassword |-> FALSE, hasUsername |-> FALSE]

\* return hasPasswordField || hasUsernameField
eitherField(flags) == flags.hasPassword \/ flags.hasUsername

\* return hasPasswordField && hasUsernameField
bothFields(flags) == flags.hasPassword /\ flags.hasUsername

\* isLoginForm returning true when either flag is set
isLoginFormEither(d, n) == eitherField(checkFormFields(d, n, NoFields))

isLoginForm(d, n) == bothFields(checkFormFields(d, n, NoFields))

\* url.URL.Hostname: the host without its port; i is the index of its last ':'
HostnameAt(host, i) == IF i = 0 THEN host ELSE SubSeq(host, 1, i - 1)

Hostname(host) == HostnameAt(host, LastIndex(host, ":"))

\* countLink comparing Hostname() where the source compares Host
countLinkHostname(res, resolvedURL, base) ==
    IF Hostname(resolvedURL.Host) = Hostname(base.Host)
    THEN [res EXCEPT !.InternalLinks = @ + 1]
    ELSE [res EXCEPT !.ExternalLinks = @ + 1]

\* processLink on the resolved address: internal when its Host is the page's
countLink(res, resolvedURL, base) ==
    IF resolvedURL.Host = base.Host
    THEN [res EXCEPT !.InternalLinks = @ + 1]
    ELSE [res EXCEPT !.ExternalLinks = @ + 1]

\* processHref without the test of url.Parse's error
processHrefNoErrCheck(attr, i, res, base, linkURL) ==
    countLink(res, ResolveReference(base, linkURL.url), base)

\* the attribute loop of processLink from attribute i on: an href that does
\* not parse is passed over (continue), the first that parses is counted (break)
RECURSIVE processLinkFrom(_, _, _, _)
RECURSIVE processHref(_, _, _, _, _)
processLinkFrom(attr, i, res, base) ==
    IF i > Len(attr) THEN res
    ELSE IF attr[i].Key # "href" THEN processLinkFrom(attr, i + 1, res, base)
    ELSE processHref(attr, i, res, base, Parse(attr[i].Val))

\* processLink on the href attribute i, linkURL, err := url.Parse(attr.Val)
processHref(attr, i, res, base, linkURL) ==
    IF linkURL.err THEN processLinkFrom(attr, i + 1, res, base)
    ELSE countLink(res, ResolveReference(base, linkURL.url), base)

processLink(d, n, res, base) == processLinkFrom(d[n].Attr, 1, res, base)

\* a traversal whose form case assigns the outcome of isLoginForm
traverseElementAssign(d, n, res, base, tag) ==
    CASE tag = "title" ->
            IF d[n].FirstChild # 0 /\ d[d[n].FirstChild].Type = "TextNode"
            THEN [res EXCEPT !.Title = TrimSpace(d[d[n].FirstChild].Data)]
            ELSE res
      [] tag \in {"h1", "h2", "h3", "h4", "h5", "h6"} ->
            [res EXCEPT !.Headings = MapIncrement(@, tag)]
      [] tag = "a" -> processLink(d, n, res, base)
      [] tag = "form" -> [res EXCEPT !.HasLoginForm = isLoginForm(d, n)]
      [] OTHER -> res

\* the switch of traverseNode on the lower-cased tag of element n
traverseElement(d, n, res, base, tag) ==
    CASE tag = "title" ->
            IF d[n].FirstChild # 0 /\ d[d[n].FirstChild].Type = "TextNode"
            THEN [res EXCEPT !.Title = TrimSpace(d[d[n].FirstChild].Data)]
            ELSE res
      [] tag \in {"h1", "h2", "h3", "h4", "h5", "h6"} ->
            [res EXCEPT !.Headings = MapIncrement(@, tag)]
      [] tag = "a" -> processLink(d, n, res, base)
      [] tag = "form" ->
            IF isLoginForm(d, n) THEN [res EXCEPT !.HasLoginForm = TRUE] ELSE res
      [] OTHER -> res

\* the body of traverseNode for node n, before it recurses into the children
traverseNodeAt(d, n, res, base) ==
    IF d[n].Type = "ElementNode"
    THEN traverseElement(d, n, res, base, ToLower(d[n].Data))
    ELSE IF d[n].Type = "DoctypeNode"
    THEN [res EXCEPT !.HTMLVersion = detectHTMLVersion(d[n].Data)]
    ELSE res

\* appendLink that skips an address already in the list
appendLinkDedup(ls, scheme, address) ==
    IF scheme \in {"http", "https"} /\ \A j \in 1..Len(ls) : ls[j] # address
    THEN Append(ls, address)
    ELSE ls

\* extractLinksFromNode on the resolved address: appended when http or https
appendLink(ls, scheme, address) ==
    IF scheme \in {"http", "https"} THEN Append(ls, address) ELSE ls

\* extractLinksFromNode, resolvedURL := baseURL.ResolveReference(linkURL)
extractResolved(ls, resolvedURL) ==
    appendLink(ls, resolvedURL.Scheme, String(resolvedURL))

\* the attribute loop of extractLinksFromNode from attribute i on
RECURSIVE extractLinksFrom(_, _, _, _)
RECURSIVE extractHref(_, _, _, _, _)
extractLinksFrom(attr, i, base, ls) ==
    IF i > Len(attr) THEN ls
    ELSE IF attr[i].Key # "href" THEN extractLinksFrom(attr, i + 1, base, ls)
    ELSE extractHref(attr, i, base, ls, Parse(attr[i].Val))

\* extractLinksFromNode on the href attribute i
extractHref(attr, i, base, ls, linkURL) ==
    IF linkURL.err THEN extractLinksFrom(attr, i + 1, base, ls)
    ELSE extractResolved(ls, ResolveReference(base, linkURL.url))

\* the body of extractLinksFromNode for node n, before it recurses
extractLinksFromNodeAt(d, n, base, ls) ==
    IF d[n].Type = "ElementNode" /\ d[n].Data = "a"
    THEN extractLinksFrom(d[n].Attr, 1, base, ls)
    ELSE ls

-----------------------------------------------------------------------------
(* The documents and page addresses the analysis is run on.                *)

Anchor(href) == Element("a", <<Attribute("href", href)>>)

Input(type, name) == Element("input", <<Attribute("type", type), Attribute("name", name)>>)

\* references an anchor may carry: relative, query-only, fragment, empty,
\* absolute, scheme-relative, opaque (mailto, javascript), non-HTTP, unparseable
Hrefs ==
    {"/about", "page2", "?q=test", "#section", "",
     "https://example.com/contact", "https://api.example.com",
     "http://example.com:8080/x", "//cdn.example.com/lib.js",
     "mailto:test@example.com", "javascript:void(0)", "ftp://files.example.com",
     "://invalid-url", "http://example.com:port/"}

LinkLabels ==
    {Anchor(h) : h \in Hrefs}
    \cup {Element("a", <<>>),
          Element("a", <<Attribute("class", "nav"), Attribute("href", "/about")>>),
          Element("a", <<Attribute("href", "://invalid-url"), Attribute("href", "/about")>>),
          Element("a", <<Attribute("href", "/about"),
                         Attribute("href", "https://external.com")>>),
          Element("div", <<>>)}

HeadingLabels ==
    {Element(h, <<>>) : h \in {"h1", "h2", "h3", "h4", "h5", "h6"}}
    \cup {Element("div", <<>>), Element("a", <<>>), Element("form", <<>>)}

FormLabels ==
    {Element("form", <<>>), Element("div", <<>>),
     Input("password", "password"), Input("PASSWORD", "pwd"),
     Input("password", "user_password"),
     Input("text", "username"), Input("email", "Email"),
     Element("input", <<Attribute("name", "login_id")>>),
     Input("text", "query"), Input("submit", "login"),
     Element("input", <<Attribute("name", "user"), Attribute("type", "")>>)}

MixedLabels ==
    {Doctype("html"), Element("title", <<>>), Text("  Page  "), Element("h2", <<>>),
     Anchor("/about"), Anchor("https://external.com"), Element("div", <<>>)}

\* forms and the two fields of a login form
LoginLabels ==
    {Element("form", <<>>), Input("password", "password"), Input("text", "username")}

\* titles and texts: a title may hold a text, a title or nothing
TitleLabels == {Element("title", <<>>), Text("  Page  "), Text("Other\n")}

\* doctype literals: up to MaxDoctypeTokens tokens, concatenated
DoctypeTokens == {"html", " ", "X", "HTML 4", "xhtml", "-"}

RECURSIVE Concat(_)
Concat(ts) == IF ts = <<>> THEN "" ELSE Head(ts) \o Concat(Tail(ts))

DoctypeLiterals ==
    {Concat(ts) : ts \in UNION {[1..k -> DoctypeTokens] : k \in 0..MaxDoctypeTokens}}

FirstTargetURL == "https://example.com"

SecondTargetURL == "http://example.com:8080/docs/index.html"

-----------------------------------------------------------------------------
(* AnalyzeURL from the successful fetch to the extracted link list:        *)
(* analyzeDocument (traverseNode over the tree) and then extractLinks      *)
(* (extractLinksFromNode over the tree).  Each recursive call is one step; *)
(* stack holds the calls still to be made, in order.                       *)

\* AnalyzeURL has not returned: no result, no error
NotReturned == [returned |-> FALSE, result |-> <<>>, err |-> ""]

\* checkLinksAccessibility was not called: no channel, no goroutine
\* no probe is followed
NoProbe ==
    [link |-> "", chain |-> <<>>, url |-> NoURL, reqs |-> 0,
     resp |-> [failure |-> "", status |-> 0, location |-> ""],
     err |-> "", accessible |-> FALSE]

\* nothing written to the http.ResponseWriter
NothingWritten == [status |-> 0, body |-> <<>>]

\* no request is being served
NotServing ==
    /\ request = [Method |-> "", json |-> FALSE, url |-> ""]
    /\ written = NothingWritten

\* no concurrent call is followed
NotShared ==
    /\ heap = <<>>
    /\ calls = <<>>

NoLinkCheck ==
    /\ unreachable = {}
    /\ jobs = <<>>
    /\ jobsClosed = FALSE
    /\ results = <<>>
    /\ resultsClosed = FALSE
    /\ wg = 0
    /\ workers = <<>>
    /\ sender = [started |-> FALSE, i |-> 1, returned |-> FALSE]
    /\ inaccessible = 0
    /\ processed = 0
    /\ probed = <<>>

\* AnalyzeURL(targetURL) has fetched the tree d
Fetched(d, address) ==
    /\ targetURL = address
    /\ doc = d
    /\ baseURL = Parse(address).url
    /\ result = NewResult(address)
    /\ stack = <<1>>
    /\ visited = <<>>
    /\ links = <<>>
    /\ pc = "analyzeDocument"
    /\ ret = NotReturned
    /\ config = [MaxWorkers |-> 1]
    /\ ctxDone = FALSE
    /\ NoLinkCheck
    /\ probe = NoProbe
    /\ NotServing
    /\ NotShared

\* a page of at most maxN nodes below the root over the labels
InitDocs(labels, maxN, address) ==
    \E n \in 0..maxN : \E par \in Parents(n) : \E lab \in [2..(n + 1) -> labels] :
        /\ WellFormed(n, par, lab)
        /\ Fetched(BuildDoc(n, par, lab), address)

\* a page that is a single doctype node
InitDoctype ==
    \E l \in DoctypeLiterals :
        Fetched(BuildDoc(1, [j \in {2} |-> 1], [j \in {2} |-> Doctype(l)]), FirstTargetURL)

Init ==
    \/ InitDocs(MixedLabels, MaxNodes, FirstTargetURL)
    \/ InitDocs(LinkLabels, MaxLinkNodes, FirstTargetURL)
    \/ InitDocs(LinkLabels, 1, SecondTargetURL)
    \/ InitDocs(HeadingLabels, MaxLinkNodes, FirstTargetURL)
    \/ InitDocs(FormLabels, MaxFormNodes, FirstTargetURL)
    \/ InitDocs(TitleLabels, MaxTitleNodes, FirstTargetURL)
    \/ InitDocs(LoginLabels, MaxLoginNodes, FirstTargetURL)
    \/ InitDoctype

\* one call of traverseNode: the node's own effect, then its children
traverseNode ==
    /\ pc = "analyzeDocument"
    /\ stack # <<>>
    /\ LET n == Head(stack)
       IN /\ result' = traverseNodeAt(doc, n, result, baseURL)
          /\ stack' = Children(doc, n) \o Tail(stack)
          /\ visited' = Append(visited, n)
    /\ UNCHANGED <<sharedVars, serveVars, targetURL, doc, baseURL, links, pc, ret,
                   config, probe,
                   ctxDone, probeVars>>

\* analyzeDocument returns; AnalyzeURL calls extractLinks
analyzeDocument ==
    /\ pc = "analyzeDocument"
    /\ stack = <<>>
    /\ pc' = "extractLinks"
    /\ stack' = <<1>>
    /\ visited' = <<>>
    /\ UNCHANGED <<sharedVars, serveVars, targetURL, doc, baseURL, result, links, ret,
                   config, probe,
                   ctxDone, probeVars>>

\* one call of extractLinksFromNode
extractLinksFromNode ==
    /\ pc = "extractLinks"
    /\ stack # <<>>
    /\ LET n == Head(stack)
       IN /\ links' = extractLinksFromNodeAt(doc, n, baseURL, links)
          /\ stack' = Children(doc, n) \o Tail(stack)
          /\ visited' = Append(visited, n)
    /\ UNCHANGED <<sharedVars, serveVars, targetURL, doc, baseURL, result, pc, ret,
                   config, probe,
                   ctxDone, probeVars>>

\* extractLinks returns the list
extractLinks ==
    /\ pc = "extractLinks"
    /\ stack = <<>>
    /\ pc' = "extracted"
    /\ UNCHANGED <<sharedVars, serveVars, docVars, ret, config, probe, ctxDone, probeVars>>

Next ==
    \/ traverseNode
    \/ analyzeDocument
    \/ extractLinksFromNode
    \/ extractLinks

Spec == Init /\ [][Next]_vars

-----------------------------------------------------------------------------
(* AnalyzeURL end to end: the address is validated and normalized, the     *)
(* page fetched, the tree analysed, the links extracted and checked by the *)
(* worker pool of checkLinksAccessibility, the Result returned.  The       *)
(* goroutines of the pool (workers, job sender, closer of results) and the *)
(* collecting loop of the caller take their steps in any order; the        *)
(* request's context may be cancelled at any point.                        *)

PageLabels ==
    {Doctype("html"), Element("h1", <<>>), Anchor("/about"),
     Anchor("https://external.com"), Anchor("mailto:test@example.com")}

\* addresses AnalyzeURL is called with: with a scheme, without, unparseable
PageAddresses == {"https://example.com", "example.com", "://example.com"}

\* AnalyzeURL is entered: the Result exists (lines 846-849), nothing else
InitURL ==
    \E address \in PageAddresses : \E n \in 0..MaxPageNodes :
    \E par \in Parents(n) : \E lab \in [2..(n + 1) -> PageLabels] :
    \E w \in 0..MaxConfiguredWorkers :
        /\ WellFormed(n, par, lab)
        /\ targetURL = address
        /\ doc = BuildDoc(n, par, lab)
        /\ baseURL = NoURL
        /\ result = NewResult(address)
        /\ stack = <<>>
        /\ visited = <<>>
        /\ links = <<>>
        /\ pc = "AnalyzeURL"
        /\ ret = NotReturned
        /\ config = [MaxWorkers |-> w]
        /\ ctxDone = FALSE
        /\ NoLinkCheck
        /\ probe = NoProbe
        /\ NotServing
        /\ NotShared

\* a return of the error together with the Result built so far
ReturnErrorWithResult(msg) ==
    /\ ret' = [returned |-> TRUE, result |-> <<result>>, err |-> msg]
    /\ pc' = "returned"

\* return nil, fmt.Errorf(...)
ReturnError(msg) ==
    /\ ret' = [returned |-> TRUE, result |-> <<>>, err |-> msg]
    /\ pc' = "returned"

\* AnalyzeURL up to the fetch: url.Parse, the "http://" prefix for an address
\* without scheme, result.URL
AnalyzeURL ==
    /\ pc = "AnalyzeURL"
    /\ \E first \in {Parse(targetURL)} : \E second \in {Parse("http://" \o targetURL)} :
          IF first.err
          THEN ReturnError("invalid URL") /\ UNCHANGED <<targetURL, baseURL, result>>
          ELSE IF first.url.Scheme # ""
          THEN /\ baseURL' = first.url
               /\ result' = [result EXCEPT !.URL = targetURL]
               /\ pc' = "fetchHTML"
               /\ UNCHANGED <<targetURL, ret>>
          ELSE IF second.err
          THEN /\ targetURL' = "http://" \o targetURL
               /\ ReturnError("invalid URL")
               /\ UNCHANGED <<baseURL, result>>
          ELSE /\ targetURL' = "http://" \o targetURL
               /\ baseURL' = second.url
               /\ result' = [result EXCEPT !.URL = targetURL']
               /\ pc' = "fetchHTML"
               /\ UNCHANGED ret
    /\ UNCHANGED <<sharedVars, serveVars, doc, stack, visited, links, config, probe,
                   ctxDone,
                   probeVars>>

\* what the fetch of the page can end in
FetchOutcomes ==
    {"200 OK", "204 No Content", "404 Not Found", "transport error", "parse error"}

\* fetchHTML and the test of its error in AnalyzeURL: the tree of the page on
\* status 200, else return nil and the error; a cancelled context fails the
\* request
fetchHTML ==
    /\ pc = "fetchHTML"
    /\ \E outcome \in IF ctxDone THEN {"context canceled"} ELSE FetchOutcomes :
        IF outcome = "200 OK"
        THEN /\ pc' = "analyzeDocument"
             /\ stack' = <<1>>
             /\ UNCHANGED ret
        ELSE /\ ReturnError("failed to fetch HTML: " \o outcome)
             /\ UNCHANGED stack
    /\ UNCHANGED <<sharedVars, serveVars, targetURL, doc, baseURL, result, visited,
                   links, config,
                   probe, ctxDone,
                   probeVars>>

\* the context of the request is cancelled (or its deadline passes)
Cancel ==
    /\ ~ctxDone
    /\ pc # "returned"
    /\ ctxDone' = TRUE
    /\ UNCHANGED <<sharedVars, serveVars, docVars, pc, ret, config, probe, probeVars>>

\* a pool that starts one worker at least
StartPoolAtLeastOne ==
    /\ LET maxWorkers == Max(Min(config.MaxWorkers, Len(links)), 1)
       IN /\ workers' = [w \in 1..maxWorkers |-> [pc |-> "range jobs", url |-> "",
                                                  cancelled |-> FALSE]]
          /\ wg' = Max(maxWorkers, 0)
    /\ \E down \in SUBSET Range(links) : unreachable' = down
    /\ jobs' = <<>>
    /\ jobsClosed' = FALSE
    /\ results' = <<>>
    /\ resultsClosed' = FALSE
    /\ sender' = [started |-> TRUE, i |-> 1, returned |-> FALSE]
    /\ inaccessible' = 0
    /\ processed' = 0
    /\ probed' = <<>>
    /\ pc' = "range results"

\* checkLinksAccessibility past its test of the empty list, up to the
\* collecting loop: maxWorkers, the two channels, the goroutines started
StartPool ==
    /\ LET maxWorkers == Min(config.MaxWorkers, Len(links))
       IN /\ workers' = [w \in 1..maxWorkers |-> [pc |-> "range jobs", url |-> "",
                                                  cancelled |-> FALSE]]
          /\ wg' = Max(maxWorkers, 0)
    /\ \E down \in SUBSET Range(links) : unreachable' = down
    /\ jobs' = <<>>
    /\ jobsClosed' = FALSE
    /\ results' = <<>>
    /\ resultsClosed' = FALSE
    /\ sender' = [started |-> TRUE, i |-> 1, returned |-> FALSE]
    /\ inaccessible' = 0
    /\ processed' = 0
    /\ probed' = <<>>
    /\ pc' = "range results"

\* AnalyzeURL calls checkLinksAccessibility when a link was extracted
checkLinksAccessibility ==
    /\ pc = "extracted"
    /\ Len(links) > 0
    /\ StartPool
    /\ UNCHANGED <<sharedVars, serveVars, docVars, ret, config, probe, ctxDone>>

\* a worker receives a url from jobs and calls checkSingleLink; a request
\* made on a cancelled context fails at once
workerReceive(w) ==
    /\ workers[w].pc = "range jobs"
    /\ jobs # <<>>
    /\ workers' = [workers EXCEPT ![w] = [pc |-> "checkSingleLink", url |-> Head(jobs),
                                          cancelled |-> ctxDone]]
    /\ jobs' = Tail(jobs)
    /\ probed' = Append(probed, Head(jobs))
    /\ UNCHANGED <<sharedVars, serveVars, docVars, pc, ret, config, probe, ctxDone,
                   unreachable,
                   jobsClosed, results,
                   resultsClosed, wg, sender, inaccessible, processed>>

\* what checkSingleLink can return for a url: false for every failure, true
\* for a final status in [200, 400); a cancellation during the request may
\* fail it
checkSingleLink(url, cancelledBefore) ==
    IF cancelledBefore THEN {FALSE}
    ELSE IF ctxDone THEN {FALSE, url \notin unreachable}
    ELSE {url \notin unreachable}

\* checkSingleLink returns and the worker sends the outcome on results
workerSend(w) ==
    /\ workers[w].pc = "checkSingleLink"
    /\ Len(results) < Len(links)
    /\ \E accessible \in checkSingleLink(workers[w].url, workers[w].cancelled) :
        results' = Append(results, accessible)
    /\ workers' = [workers EXCEPT ![w] = [pc |-> "range jobs", url |-> "",
                                          cancelled |-> FALSE]]
    /\ UNCHANGED <<sharedVars, serveVars, docVars, pc, ret, config, probe, ctxDone,
                   unreachable,
                   jobs, jobsClosed,
                   resultsClosed, wg, sender, inaccessible, processed, probed>>

\* jobs is closed and drained: the worker's loop ends, wg.Done()
workerDone(w) ==
    /\ workers[w].pc = "range jobs"
    /\ jobs = <<>>
    /\ jobsClosed
    /\ workers' = [workers EXCEPT ![w].pc = "done"]
    /\ wg' = wg - 1
    /\ UNCHANGED <<sharedVars, serveVars, docVars, pc, ret, config, probe, ctxDone,
                   unreachable,
                   jobs, jobsClosed,
                   results, resultsClosed, sender, inaccessible, processed, probed>>

\* the sender's select takes the case jobs <- link
senderSend ==
    /\ pc \in {"range results", "returned"}
    /\ sender.started
    /\ ~sender.returned
    /\ sender.i <= Len(links)
    /\ Len(jobs) < Len(links)
    /\ jobs' = Append(jobs, links[sender.i])
    /\ sender' = [sender EXCEPT !.i = @ + 1]
    /\ UNCHANGED <<sharedVars, serveVars, docVars, pc, ret, config, probe, ctxDone,
                   unreachable,
                   jobsClosed, results,
                   resultsClosed, wg, workers, inaccessible, processed, probed>>

\* the sender returning on <-ctx.Done() without closing jobs
senderCancelledNoClose ==
    /\ pc \in {"range results", "returned"}
    /\ sender.started
    /\ ~sender.returned
    /\ sender.i <= Len(links)
    /\ ctxDone
    /\ sender' = [sender EXCEPT !.returned = TRUE]
    /\ UNCHANGED <<sharedVars, serveVars, docVars, pc, ret, config, probe, ctxDone,
                   unreachable,
                   jobs, jobsClosed, results,
                   resultsClosed, wg, workers, inaccessible, processed, probed>>

\* the sender's select takes the case <-ctx.Done(): return, close(jobs)
senderCancelled ==
    /\ pc \in {"range results", "returned"}
    /\ sender.started
    /\ ~sender.returned
    /\ sender.i <= Len(links)
    /\ ctxDone
    /\ sender' = [sender EXCEPT !.returned = TRUE]
    /\ jobsClosed' = TRUE
    /\ UNCHANGED <<sharedVars, serveVars, docVars, pc, ret, config, probe, ctxDone,
                   unreachable,
                   jobs, results,
                   resultsClosed, wg, workers, inaccessible, processed, probed>>

\* the sender has sent every link: its loop ends, close(jobs)
senderDone ==
    /\ pc \in {"range results", "returned"}
    /\ sender.started
    /\ ~sender.returned
    /\ sender.i > Len(links)
    /\ sender' = [sender EXCEPT !.returned = TRUE]
    /\ jobsClosed' = TRUE
    /\ UNCHANGED <<sharedVars, serveVars, docVars, pc, ret, config, probe, ctxDone,
                   unreachable,
                   jobs, results,
                   resultsClosed, wg, workers, inaccessible, processed, probed>>

\* a closer that closes results without waiting for the workers
closeResultsNoWait ==
    /\ pc = "range results"
    /\ ~resultsClosed
    /\ resultsClosed' = TRUE
    /\ UNCHANGED <<sharedVars, serveVars, docVars, pc, ret, config, probe, ctxDone,
                   unreachable, jobs, jobsClosed, results, wg, workers, sender,
                   inaccessible, processed, probed>>

\* wg.Wait() returns: close(results)
closeResults ==
    /\ pc = "range results"
    /\ ~resultsClosed
    /\ wg = 0
    /\ resultsClosed' = TRUE
    /\ UNCHANGED <<sharedVars, serveVars, docVars, pc, ret, config, probe, ctxDone,
                   unreachable,
                   jobs, jobsClosed,
                   results, wg, workers, sender, inaccessible, processed, probed>>

\* a collecting loop that keeps the last result only
collectResultLast ==
    /\ pc = "range results"
    /\ results # <<>>
    /\ processed' = processed + 1
    /\ inaccessible' = IF Head(results) THEN 0 ELSE 1
    /\ results' = Tail(results)
    /\ UNCHANGED <<sharedVars, serveVars, docVars, pc, ret, config, probe, ctxDone,
                   unreachable, jobs, jobsClosed, resultsClosed, wg, workers, sender,
                   probed>>

\* the collecting loop receives one result
collectResult ==
    /\ pc = "range results"
    /\ results # <<>>
    /\ processed' = processed + 1
    /\ inaccessible' = IF Head(results) THEN inaccessible ELSE inaccessible + 1
    /\ results' = Tail(results)
    /\ UNCHANGED <<sharedVars, serveVars, docVars, pc, ret, config, probe, ctxDone,
                   unreachable,
                   jobs, jobsClosed,
                   resultsClosed, wg, workers, sender, probed>>

\* results is closed and drained: checkLinksAccessibility returns the count,
\* AnalyzeURL stores it and returns the Result
linksChecked ==
    /\ pc = "range results"
    /\ results = <<>>
    /\ resultsClosed
    /\ result' = [result EXCEPT !.InaccessibleLinks = inaccessible]
    /\ ret' = [returned |-> TRUE, result |-> <<result'>>, err |-> ""]
    /\ pc' = "returned"
    /\ UNCHANGED <<sharedVars, serveVars, targetURL, doc, baseURL, stack, visited, links,
                   config,
                   probe, ctxDone,
                   probeVars>>

\* no link was extracted: AnalyzeURL returns the Result without a check
noLinks ==
    /\ pc = "extracted"
    /\ Len(links) = 0
    /\ ret' = [returned |-> TRUE, result |-> <<result>>, err |-> ""]
    /\ pc' = "returned"
    /\ UNCHANGED <<sharedVars, serveVars, docVars, config, probe, ctxDone, probeVars>>

NextURL ==
    \/ AnalyzeURL
    \/ fetchHTML
    \/ Cancel
    \/ traverseNode
    \/ analyzeDocument
    \/ extractLinksFromNode
    \/ extractLinks
    \/ checkLinksAccessibility
    \/ \E w \in DOMAIN workers : workerReceive(w)
    \/ \E w \in DOMAIN workers : workerSend(w)
    \/ \E w \in DOMAIN workers : workerDone(w)
    \/ senderSend
    \/ senderCancelled
    \/ senderDone
    \/ closeResults
    \/ collectResult
    \/ linksChecked
    \/ noLinks

SpecURL == InitURL /\ [][NextURL]_vars

-----------------------------------------------------------------------------
(* checkLinksAccessibility called on its own, as the tests of the package  *)
(* call it: with any list of targets, the empty one included, on a context *)
(* that may be cancelled before the call.                                  *)

\* the addresses a list of targets is made of
Targets == {"https://example.com/about", "https://external.com"}

\* the lists of at most MaxTargets targets
TargetLists == UNION {[1..k -> Targets] : k \in 0..MaxTargets}

InitCheck ==
    \E list \in TargetLists : \E w \in -1..MaxConfiguredWorkers : \E done \in BOOLEAN :
        /\ targetURL = ""
        /\ doc = <<>>
        /\ baseURL = NoURL
        /\ result = NewResult("")
        /\ stack = <<>>
        /\ visited = <<>>
        /\ links = list
        /\ pc = "checkLinksAccessibility"
        /\ ret = NotReturned
        /\ config = [MaxWorkers |-> w]
        /\ ctxDone = done
        /\ NoLinkCheck
        /\ probe = NoProbe
        /\ NotServing
        /\ NotShared

\* checkLinksAccessibility that runs the pool on an empty list too
checkLinksAccessibilityNoShortCut ==
    /\ pc = "checkLinksAccessibility"
    /\ Len(links) = 0
    /\ StartPool
    /\ UNCHANGED <<sharedVars, serveVars, docVars, ret, config, probe, ctxDone>>

\* if len(links) == 0 { return 0 }
checkLinksAccessibilityEmpty ==
    /\ pc = "checkLinksAccessibility"
    /\ Len(links) = 0
    /\ pc' = "returned"
    /\ UNCHANGED <<sharedVars, serveVars, docVars, ret, config, probe, ctxDone, probeVars>>

\* the call with a non-empty list
checkLinksAccessibilityCalled ==
    /\ pc = "checkLinksAccessibility"
    /\ Len(links) > 0
    /\ StartPool
    /\ UNCHANGED <<sharedVars, serveVars, docVars, ret, config, probe, ctxDone>>

\* results is closed and drained: return inaccessible
checkLinksAccessibilityReturn ==
    /\ pc = "range results"
    /\ results = <<>>
    /\ resultsClosed
    /\ pc' = "returned"
    /\ UNCHANGED <<sharedVars, serveVars, docVars, ret, config, probe, ctxDone, probeVars>>

NextCheck ==
    \/ checkLinksAccessibilityEmpty
    \/ checkLinksAccessibilityCalled
    \/ Cancel
    \/ \E w \in DOMAIN workers : workerReceive(w)
    \/ \E w \in DOMAIN workers : workerSend(w)
    \/ \E w \in DOMAIN workers : workerDone(w)
    \/ senderSend
    \/ senderCancelled
    \/ senderDone
    \/ closeResults
    \/ collectResult
    \/ checkLinksAccessibilityReturn

SpecCheck == InitCheck /\ [][NextCheck]_vars

\* the steps of the goroutines of a direct call once the pool is set up
ScheduledCheck ==
    \/ \E w \in DOMAIN workers : workerReceive(w)
    \/ \E w \in DOMAIN workers : workerSend(w)
    \/ \E w \in DOMAIN workers : workerDone(w)
    \/ senderSend
    \/ senderCancelled
    \/ senderDone
    \/ closeResults
    \/ collectResult
    \/ checkLinksAccessibilityReturn

\* the direct call under a scheduler that lets some goroutine of the call
\* run whenever one can
FairSpecCheck ==
    /\ InitCheck
    /\ [][NextCheck]_vars
    /\ WF_vars(checkLinksAccessibilityCalled)
    /\ WF_vars(ScheduledCheck)

-----------------------------------------------------------------------------
(* One call of checkSingleLink, followed request by request: the request   *)
(* is built, client.Do sends it, each answer is either returned or         *)
(* followed as a redirect after CheckRedirect agreed, and the status of    *)
(* the answer client.Do returns is classified.                             *)

\* an answer of a server: a status line with its Location header
Response(status, location) == [failure |-> "", status |-> status, location |-> location]

\* a request that gets no answer
Failure(cause) == [failure |-> cause, status |-> 0, location |-> ""]

\* the answers that send the client on
Redirections == {Response(301, "/moved"), Response(307, "https://example.com/moved")}

\* the answers and failures a chain ends with
Finals ==
    {Response(s, "") : s \in {101, 200, 301, 304, 399, 400, 404}}
        \cup {Response(302, "://moved")}
        \cup {Failure(c) : c \in {"no such host", "connection refused", "timeout"}}

\* what the servers answer to the successive requests of a probe: k
\* redirections, then a final answer
Chains(k) == {Append(p, f) : p \in [1..k -> Redirections], f \in Finals}

\* the targets probed: an address, a malformed one, one no transport serves
ProbeLinks == {"https://example.com/a", "://example.com", "ftp://example.com/a"}

InitProbe ==
    \E link \in ProbeLinks : \E k \in 0..MaxHops : \E chain \in Chains(k) :
    \E r \in 0..MaxRedirectCeiling : \E done \in BOOLEAN :
        /\ targetURL = ""
        /\ doc = <<>>
        /\ baseURL = NoURL
        /\ result = NewResult("")
        /\ stack = <<>>
        /\ visited = <<>>
        /\ links = <<link>>
        /\ pc = "checkSingleLink"
        /\ ret = NotReturned
        /\ config = [MaxWorkers |-> 1, MaxRedirects |-> r]
        /\ ctxDone = done
        /\ NoLinkCheck
        /\ probe = [NoProbe EXCEPT !.link = link, !.chain = chain]
        /\ NotServing
        /\ NotShared

\* return false after a request that could not be built or got no response
probeFailed(err) ==
    /\ probe' = [probe EXCEPT !.err = err, !.accessible = FALSE]
    /\ pc' = "returned"

\* req, err := http.NewRequestWithContext(ctx, http.MethodHead, link, nil)
checkSingleLinkNewRequest ==
    /\ pc = "checkSingleLink"
    /\ \E u \in {Parse(probe.link)} :
           IF u.err
           THEN probeFailed("parse")
           ELSE /\ probe' = [probe EXCEPT !.url = u.url]
                /\ pc' = "send"
    /\ UNCHANGED <<sharedVars, serveVars, docVars, ret, config, ctxDone, probeVars>>

\* the error of a round trip, "" when the request is answered
sendError(url, answer) ==
    IF url.Scheme \notin {"http", "https"} THEN "unsupported protocol scheme"
    ELSE IF url.Host = "" THEN "no Host in request URL"
    ELSE IF ctxDone THEN "context canceled"
    ELSE answer.failure

\* client.Do sends the next request of the probe
clientSend ==
    /\ pc = "send"
    /\ \E err \in {sendError(probe.url, probe.chain[probe.reqs + 1])} :
           IF err # ""
           THEN /\ probe' = [probe EXCEPT !.reqs = @ + 1, !.err = err,
                                          !.accessible = FALSE]
                /\ pc' = "returned"
           ELSE /\ probe' = [probe EXCEPT !.reqs = @ + 1,
                                          !.resp = probe.chain[probe.reqs + 1]]
                /\ pc' = "redirect"
    /\ UNCHANGED <<sharedVars, serveVars, docVars, ret, config, ctxDone, probeVars>>

\* the statuses client.Do follows
shouldRedirect(status) == status \in {301, 302, 303, 307, 308}

\* CheckRedirect of the probing client, called with len(via) requests made
CheckRedirect(via) ==
    IF via >= config.MaxRedirects THEN "too many redirects" ELSE ""

\* client.Do with a response in hand: return it, or follow its Location
clientRedirect ==
    /\ pc = "redirect"
    /\ IF ~shouldRedirect(probe.resp.status) \/ probe.resp.location = ""
       THEN /\ pc' = "status"
            /\ UNCHANGED probe
       ELSE \E ref \in {Parse(probe.resp.location)} :
                IF ref.err
                THEN probeFailed("failed to parse Location header")
                ELSE IF CheckRedirect(probe.reqs) # ""
                THEN probeFailed(CheckRedirect(probe.reqs))
                ELSE /\ probe' = [probe EXCEPT
                                     !.url = ResolveReference(probe.url, ref.url)]
                     /\ pc' = "send"
    /\ UNCHANGED <<sharedVars, serveVars, docVars, ret, config, ctxDone, probeVars>>

\* a classification that takes the 2xx statuses only
accessibleStatusBelow300(status) == status >= 200 /\ status < 300

\* accessible := resp.StatusCode >= 200 && resp.StatusCode < 400
accessibleStatus(status) == status >= 200 /\ status < 400

\* client.Do returned a response: classify its status and return
checkSingleLinkStatus ==
    /\ pc = "status"
    /\ probe' = [probe EXCEPT !.accessible = accessibleStatus(probe.resp.status)]
    /\ pc' = "returned"
    /\ UNCHANGED <<sharedVars, serveVars, docVars, ret, config, ctxDone, probeVars>>

NextProbe ==
    \/ checkSingleLinkNewRequest
    \/ clientSend
    \/ clientRedirect
    \/ checkSingleLinkStatus
    \/ Cancel

SpecProbe == InitProbe /\ [][NextProbe]_vars

-----------------------------------------------------------------------------
(* ServeAnalyze (internal/handlers): the request is checked, AnalyzeURL    *)
(* runs as above, and the Result, or the record built from the error, is   *)
(* encoded as JSON.                                                        *)

\* the requests served: any method, a body that is not JSON, a body without
\* a url, and the page addresses
Requests ==
    {[Method |-> m, json |-> j, url |-> u] :
        m \in {"POST", "GET"}, j \in BOOLEAN, u \in {""} \cup PageAddresses}

\* page labels of a served page
ServedLabels == {Doctype("html"), Element("h1", <<>>), Anchor("/about")}

InitServe ==
    \E r \in Requests : \E n \in 0..MaxServedNodes :
    \E par \in Parents(n) : \E lab \in [2..(n + 1) -> ServedLabels] :
    \E w \in 0..MaxConfiguredWorkers :
        /\ WellFormed(n, par, lab)
        /\ ~r.json => r.url = ""
        /\ targetURL = ""
        /\ doc = BuildDoc(n, par, lab)
        /\ baseURL = NoURL
        /\ result = NewResult("")
        /\ stack = <<>>
        /\ visited = <<>>
        /\ links = <<>>
        /\ pc = "ServeAnalyze"
        /\ ret = NotReturned
        /\ config = [MaxWorkers |-> w]
        /\ ctxDone = FALSE
        /\ NoLinkCheck
        /\ probe = NoProbe
        /\ request = r
        /\ written = NothingWritten
        /\ NotShared

\* the zero value of Result
ZeroResult ==
    [URL |-> "", HTMLVersion |-> "", Title |-> "", Headings |-> EmptyMap,
     InternalLinks |-> 0, ExternalLinks |-> 0, InaccessibleLinks |-> 0,
     HasLoginForm |-> FALSE, Error |-> ""]

\* the members json.Encoder writes for a Result: "error" has omitempty, a
\* nil map is written null and a made map as an object
Encode(r, nilHeadings) ==
    [k \in {"url", "html_version", "title", "headings", "internal_links",
            "external_links", "inaccessible_links", "has_login_form"}
           \cup (IF r.Error = "" THEN {} ELSE {"error"}) |->
        CASE k = "url" -> r.URL
          [] k = "html_version" -> r.HTMLVersion
          [] k = "title" -> r.Title
          [] k = "headings" -> [null |-> nilHeadings, object |-> r.Headings]
          [] k = "internal_links" -> r.InternalLinks
          [] k = "external_links" -> r.ExternalLinks
          [] k = "inaccessible_links" -> r.InaccessibleLinks
          [] k = "has_login_form" -> r.HasLoginForm
          [] k = "error" -> r.Error]

\* writeErrorResponse
writeErrorResponse(statusCode, message) ==
    /\ written' = [status |-> statusCode, body |-> [k \in {"error"} |-> message]]
    /\ pc' = "responded"

\* ServeAnalyze up to its call of AnalyzeURL: the method, the body, the url
ServeAnalyze ==
    /\ pc = "ServeAnalyze"
    /\ IF request.Method # "POST"
       THEN /\ writeErrorResponse(405, "Method not allowed")
            /\ UNCHANGED <<targetURL, result>>
       ELSE IF ~request.json
       THEN /\ writeErrorResponse(400, "Invalid request")
            /\ UNCHANGED <<targetURL, result>>
       ELSE IF request.url = ""
       THEN /\ writeErrorResponse(400, "URL is required")
            /\ UNCHANGED <<targetURL, result>>
       ELSE /\ targetURL' = request.url
            /\ result' = NewResult(request.url)
            /\ pc' = "AnalyzeURL"
            /\ UNCHANGED written
    /\ UNCHANGED <<sharedVars, doc, baseURL, stack, visited, links, ret, config, ctxDone,
                   probeVars, probe, request>>

\* the record ServeAnalyze encodes once AnalyzeURL has returned
Emitted ==
    IF ret.err # ""
    THEN Encode([ZeroResult EXCEPT !.URL = request.url, !.Error = ret.err], TRUE)
    ELSE Encode(ret.result[1], FALSE)

\* AnalyzeURL has returned: the Result, or the record with the error, is
\* encoded to w
ServeAnalyzeEncode ==
    /\ pc = "returned"
    /\ ret.returned
    /\ written' = [status |-> 200, body |-> Emitted]
    /\ pc' = "responded"
    /\ UNCHANGED <<sharedVars, docVars, ret, config, ctxDone, probeVars, probe, request>>

NextServe ==
    \/ ServeAnalyze
    \/ ServeAnalyzeEncode
    \/ NextURL

SpecServe == InitServe /\ [][NextServe]_vars

-----------------------------------------------------------------------------
(* Several calls of AnalyzeURL on one Analyzer, interleaved.  What a call  *)
(* allocates (its Result, the client, the two channels of                  *)
(* checkLinksAccessibility) is an object of the heap, reached through the  *)
(* references the call holds; the Analyzer is the object every call        *)
(* reaches through a.  A page is the list of the outcomes of the probes of *)
(* its links, and the pool of a call has one worker.                       *)

\* the calls in flight on the Analyzer
Calls == {"first", "second"}

\* the pages fetched: per link, whether its probe finds it reachable
Pages == UNION {[1..k -> BOOLEAN] : k \in 0..MaxCallLinks}

\* the address of the Analyzer
TheAnalyzer == 1

\* an object of the heap: what it is, the call that allocated it, the
\* calls and the goroutines that read or wrote it, the fields written in the
\* order of the writes, its value
Object(kind, by, val) ==
    [kind |-> kind, by |-> by, users |-> {by}, goroutines |-> {"AnalyzeURL"},
     written |-> <<>>, val |-> val]

\* a call entering AnalyzeURL
NewCall(page) ==
    [pc |-> "AnalyzeURL", page |-> page, result |-> 0, client |-> 0, jobs |-> 0,
     results |-> 0, node |-> 1, next |-> 1, workerDone |-> FALSE,
     inaccessible |-> 0, returned |-> <<>>]

InitShared ==
    \E pages \in [Calls -> Pages] :
        /\ targetURL = ""
        /\ doc = <<>>
        /\ baseURL = NoURL
        /\ result = NewResult("")
        /\ stack = <<>>
        /\ visited = <<>>
        /\ links = <<>>
        /\ pc = "serving"
        /\ ret = NotReturned
        /\ config = [MaxWorkers |-> 1]
        /\ ctxDone = FALSE
        /\ NoLinkCheck
        /\ probe = NoProbe
        /\ NotServing
        /\ heap = <<[kind |-> "Analyzer", by |-> "", users |-> {}, goroutines |-> {},
                    written |-> <<>>, val |-> config]>>
        /\ calls = [c \in Calls |-> NewCall(pages[c])]

\* the variables of the single call of the other specifications
oneCallVars == <<docVars, pc, ret, config, ctxDone, probeVars, probe, serveVars>>

\* an allocation that hands out the object of that kind already there
ReusedAddress(h, kind) ==
    IF \E a \in DOMAIN h : h[a].kind = kind
    THEN CHOOSE a \in DOMAIN h : h[a].kind = kind
    ELSE Len(h) + 1

\* the address of a newly allocated object: one no object has
NewAddress(h, kind) == Len(h) + 1

\* the heap with the object stored at the address
Store(h, a, object) ==
    IF a \in DOMAIN h THEN [h EXCEPT ![a] = object] ELSE Append(h, object)

\* the heap after a goroutine of call c read the object at a (field "") or
\* wrote the field, leaving the object with the value
Access(h, a, c, goroutine, field, val) ==
    [h EXCEPT ![a].users = @ \cup {c},
              ![a].goroutines = @ \cup {goroutine},
              ![a].written = IF field = "" THEN @ ELSE Append(@, field),
              ![a].val = val]

\* result := &Result{URL: targetURL, Headings: make(map[string]int)}
callNewResult(c) ==
    /\ calls[c].pc = "AnalyzeURL"
    /\ \E a \in {NewAddress(heap, "Result")} :
        /\ heap' = Store(heap, a, Object("Result", c,
                        [URL |-> c, InternalLinks |-> 0, InaccessibleLinks |-> 0]))
        /\ calls' = [calls EXCEPT ![c].result = a, ![c].pc = "fetchHTML"]
    /\ UNCHANGED oneCallVars

\* fetchHTML: the request goes through a.client
callFetchHTML(c) ==
    /\ calls[c].pc = "fetchHTML"
    /\ heap' = Access(heap, TheAnalyzer, c, "AnalyzeURL", "", heap[TheAnalyzer].val)
    /\ calls' = [calls EXCEPT ![c].pc = "analyzeDocument"]
    /\ UNCHANGED oneCallVars

\* analyzeDocument at one link of the page: result.InternalLinks++
callProcessLink(c) ==
    /\ calls[c].pc = "analyzeDocument"
    /\ calls[c].node <= Len(calls[c].page)
    /\ heap' = Access(heap, calls[c].result, c, "AnalyzeURL", "InternalLinks",
                      [heap[calls[c].result].val EXCEPT !.InternalLinks = @ + 1])
    /\ calls' = [calls EXCEPT ![c].node = @ + 1]
    /\ UNCHANGED oneCallVars

\* the page is traversed and has no link: return result, nil
callReturnNoLinks(c) ==
    /\ calls[c].pc = "analyzeDocument"
    /\ calls[c].node > Len(calls[c].page)
    /\ Len(calls[c].page) = 0
    /\ heap' = Access(heap, calls[c].result, c, "AnalyzeURL", "",
                      heap[calls[c].result].val)
    /\ calls' = [calls EXCEPT ![c].pc = "returned",
                              ![c].returned = <<heap[calls[c].result].val>>]
    /\ UNCHANGED oneCallVars

\* checkLinksAccessibility makes the client and the two channels
callStartPool(c) ==
    /\ calls[c].pc = "analyzeDocument"
    /\ calls[c].node > Len(calls[c].page)
    /\ Len(calls[c].page) > 0
    /\ \E client \in {NewAddress(heap, "Client")} :
       \E withClient \in {Store(heap, client, Object("Client", c, <<>>))} :
       \E jobsAt \in {NewAddress(withClient, "jobs")} :
       \E withJobs \in {Store(withClient, jobsAt,
                              Object("jobs", c, [buf |-> <<>>, closed |-> FALSE]))} :
       \E resultsAt \in {NewAddress(withJobs, "results")} :
        /\ heap' = Store(withJobs, resultsAt,
                         Object("results", c, [buf |-> <<>>, closed |-> FALSE]))
        /\ calls' = [calls EXCEPT ![c].client = client, ![c].jobs = jobsAt,
                                  ![c].results = resultsAt,
                                  ![c].pc = "range results"]
    /\ UNCHANGED oneCallVars

\* the sender of the call: jobs <- link
callSenderSend(c) ==
    /\ calls[c].pc = "range results"
    /\ calls[c].next <= Len(calls[c].page)
    /\ heap' = Access(heap, calls[c].jobs, c, "sender", "buf",
                      [heap[calls[c].jobs].val EXCEPT !.buf = Append(@, calls[c].next)])
    /\ calls' = [calls EXCEPT ![c].next = @ + 1]
    /\ UNCHANGED oneCallVars

\* the sender of the call: close(jobs)
callSenderDone(c) ==
    /\ calls[c].pc = "range results"
    /\ calls[c].next = Len(calls[c].page) + 1
    /\ heap' = Access(heap, calls[c].jobs, c, "sender", "closed",
                      [heap[calls[c].jobs].val EXCEPT !.closed = TRUE])
    /\ calls' = [calls EXCEPT ![c].next = @ + 1]
    /\ UNCHANGED oneCallVars

\* a worker that counts an unreachable link in the Result itself
callWorkerReceiveCounting(c) ==
    /\ calls[c].pc = "range results"
    /\ ~calls[c].workerDone
    /\ heap[calls[c].jobs].val.buf # <<>>
    /\ \E link \in {Head(heap[calls[c].jobs].val.buf)} :
       \E received \in {Access(heap, calls[c].jobs, c, "worker", "buf",
                               [heap[calls[c].jobs].val EXCEPT !.buf = Tail(@)])} :
       \E probedWith \in {Access(received, calls[c].client, c, "worker", "",
                                 received[calls[c].client].val)} :
       \E counted \in {Access(probedWith, calls[c].result, c, "worker",
                              "InaccessibleLinks",
                              [probedWith[calls[c].result].val EXCEPT
                                   !.InaccessibleLinks =
                                       IF calls[c].page[link] THEN @ ELSE @ + 1])} :
        heap' = Access(counted, calls[c].results, c, "worker", "buf",
                       [counted[calls[c].results].val EXCEPT
                            !.buf = Append(@, calls[c].page[link])])
    /\ UNCHANGED <<calls, oneCallVars>>

\* the worker of the call receives a link from jobs
callWorkerReceive(c) ==
    /\ calls[c].pc = "range results"
    /\ ~calls[c].workerDone
    /\ heap[calls[c].jobs].val.buf # <<>>
    /\ \E link \in {Head(heap[calls[c].jobs].val.buf)} :
       \E received \in {Access(heap, calls[c].jobs, c, "worker", "buf",
                               [heap[calls[c].jobs].val EXCEPT !.buf = Tail(@)])} :
       \E probedWith \in {Access(received, calls[c].client, c, "worker", "",
                                 received[calls[c].client].val)} :
        heap' = Access(probedWith, calls[c].results, c, "worker", "buf",
                       [probedWith[calls[c].results].val EXCEPT
                            !.buf = Append(@, calls[c].page[link])])
    /\ UNCHANGED <<calls, oneCallVars>>

\* jobs is closed and drained: wg.Done(), and the closer closes results
callWorkerDone(c) ==
    /\ calls[c].pc = "range results"
    /\ ~calls[c].workerDone
    /\ heap[calls[c].jobs].val.buf = <<>>
    /\ heap[calls[c].jobs].val.closed
    /\ \E ranged \in {Access(heap, calls[c].jobs, c, "worker", "",
                             heap[calls[c].jobs].val)} :
        heap' = Access(ranged, calls[c].results, c, "closer", "closed",
                       [ranged[calls[c].results].val EXCEPT !.closed = TRUE])
    /\ calls' = [calls EXCEPT ![c].workerDone = TRUE]
    /\ UNCHANGED oneCallVars

\* the collecting loop of the call receives one result
callCollectResult(c) ==
    /\ calls[c].pc = "range results"
    /\ heap[calls[c].results].val.buf # <<>>
    /\ heap' = Access(heap, calls[c].results, c, "collector", "buf",
                      [heap[calls[c].results].val EXCEPT !.buf = Tail(@)])
    /\ calls' = [calls EXCEPT ![c].inaccessible =
                     IF Head(heap[calls[c].results].val.buf) THEN @ ELSE @ + 1]
    /\ UNCHANGED oneCallVars

\* results is closed and drained: result.InaccessibleLinks = the count, and
\* return result, nil
callLinksChecked(c) ==
    /\ calls[c].pc = "range results"
    /\ heap[calls[c].results].val.buf = <<>>
    /\ heap[calls[c].results].val.closed
    /\ \E ranged \in {Access(heap, calls[c].results, c, "collector", "",
                             heap[calls[c].results].val)} :
        heap' = Access(ranged, calls[c].result, c, "AnalyzeURL", "InaccessibleLinks",
                       [ranged[calls[c].result].val EXCEPT
                            !.InaccessibleLinks = calls[c].inaccessible])
    /\ calls' = [calls EXCEPT ![c].pc = "returned",
                              ![c].returned = <<heap'[calls[c].result].val>>]
    /\ UNCHANGED oneCallVars

NextShared ==
    \/ \E c \in Calls : callNewResult(c)
    \/ \E c \in Calls : callFetchHTML(c)
    \/ \E c \in Calls : callProcessLink(c)
    \/ \E c \in Calls : callReturnNoLinks(c)
    \/ \E c \in Calls : callStartPool(c)
    \/ \E c \in Calls : callSenderSend(c)
    \/ \E c \in Calls : callSenderDone(c)
    \/ \E c \in Calls : callWorkerReceive(c)
    \/ \E c \in Calls : callWorkerDone(c)
    \/ \E c \in Calls : callCollectResult(c)
    \/ \E c \in Calls : callLinksChecked(c)

SpecShared == InitShared /\ [][NextShared]_vars

\* the steps of a running checkLinksAccessibility: those of its workers, of
\* the job sender, of the closer of results and of the collecting loop
Scheduled ==
    \/ \E w \in DOMAIN workers : workerReceive(w)
    \/ \E w \in DOMAIN workers : workerSend(w)
    \/ \E w \in DOMAIN workers : workerDone(w)
    \/ senderSend
    \/ senderCancelled
    \/ senderDone
    \/ closeResults
    \/ collectResult
    \/ linksChecked

\* AnalyzeURL under a scheduler that lets some goroutine of the pool run
\* whenever one can, every probe returning
FairSpecURL == InitURL /\ [][NextURL]_vars /\ WF_vars(Scheduled)

-----------------------------------------------------------------------------
(* What the claims speak of, stated on the tree itself.                    *)

Nodes == 1..Len(doc)

\* the nodes a traversal in progress has entered; all of them once it is over
Entered(phase) == IF pc = phase THEN Range(visited) ELSE Nodes

IsElement(n, tag) == doc[n].Type = "ElementNode" /\ doc[n].Data = tag

\* document order: a node, then its children's subtrees from first to last
RECURSIVE PreOrder(_)
RECURSIVE PreOrderOver(_)
PreOrder(n) == <<n>> \o PreOrderOver(doc[n].FirstChild)

PreOrderOver(c) == IF c = 0 THEN <<>> ELSE PreOrder(c) \o PreOrderOver(doc[c].NextSibling)

\* the proper descendants of a node
Descendants(n) == Range(PreOrder(n)) \ {n}

\* references of the model that do not parse: a missing scheme before ':',
\* a port that is not a number
UnparseableHrefs == {"://invalid-url", "http://example.com:port/"}

\* the values of the href attributes of a node, in attribute order
HrefValues(n) ==
    LET idx == {i \in 1..Len(doc[n].Attr) : doc[n].Attr[i].Key = "href"}
        F[i \in 0..Len(doc[n].Attr)] ==
            IF i = 0 THEN <<>>
            ELSE IF i \in idx THEN Append(F[i - 1], doc[n].Attr[i].Val) ELSE F[i - 1]
    IN F[Len(doc[n].Attr)]

\* the reference an anchor is taken by: its first href that parses, if any
HasReference(n) ==
    /\ IsElement(n, "a")
    /\ \E i \in 1..Len(HrefValues(n)) : HrefValues(n)[i] \notin UnparseableHrefs

Reference(n) ==
    LET hs == HrefValues(n)
    IN hs[SetMin({i \in 1..Len(hs) : hs[i] \notin UnparseableHrefs})]

\* the absolute address a reference of the model stands for on the page at
\* page, as a browser resolves it
Resolved(page, href) ==
    LET origin == IF page = FirstTargetURL THEN "https://example.com"
                  ELSE "http://example.com:8080"
        scheme == IF page = FirstTargetURL THEN "https:" ELSE "http:"
        dir == IF page = FirstTargetURL THEN "/" ELSE "/docs/"
    IN CASE href = "/about" -> origin \o "/about"
         [] href = "page2" -> origin \o dir \o "page2"
         [] href = "?q=test" -> page \o "?q=test"
         [] href = "#section" -> page \o "#section"
         [] href = "" -> page
         [] href = "//cdn.example.com/lib.js" -> scheme \o "//cdn.example.com/lib.js"
         [] OTHER -> href

\* the addresses of the model that are HTTP or HTTPS addresses
IsHTTP(address) == HasPrefix(address, "http://") \/ HasPrefix(address, "https://")

\* the host (with port) of a page of the model
HostOf(page) == IF page = FirstTargetURL THEN "example.com" ELSE "example.com:8080"

\* the references of the model whose resolved host is host
SameHost(host, href) ==
    \/ href \in {"/about", "page2", "?q=test", "#section", ""}
    \/ host = "example.com" /\ href = "https://example.com/contact"
    \/ host = "example.com:8080" /\ href = "http://example.com:8080/x"

\* the anchors whose reference resolves to an HTTP(S) address
HTTPAnchors == {n \in Nodes : HasReference(n) /\ IsHTTP(Resolved(targetURL, Reference(n)))}

-----------------------------------------------------------------------------
(* Claims on the document analysis.                                        *)

HeadingTags == {"h1", "h2", "h3", "h4", "h5", "h6"}

\* C1: after analyzeDocument, InternalLinks + ExternalLinks is the number of
\* anchors whose reference parses and resolves to an http or https address;
\* anchors resolving to another scheme increment neither counter.
C1_CountsOnlyHTTPAnchors ==
    pc \in {"extractLinks", "extracted"} =>
        result.InternalLinks + result.ExternalLinks = Cardinality(HTTPAnchors)

\* C3: the counter of heading level h<k> is the number of h<k> elements
\* traverseNode has entered, at every point of the traversal and at its end:
\* each occurrence counts once, wherever it is nested, and counts for its
\* own level only.
C3_HeadingCounts ==
    \A tag \in HeadingTags :
        MapGet(result.Headings, tag)
            = Cardinality({n \in Entered("analyzeDocument") : IsElement(n, tag)})

\* a heading nested in a heading of the same level has been counted, twice
C3_Witness ==
    /\ pc = "extracted"
    /\ \E n \in Nodes :
        /\ IsElement(n, "h2")
        /\ doc[n].FirstChild # 0
        /\ IsElement(doc[n].FirstChild, "h2")
    /\ MapGet(result.Headings, "h2") = 2
    /\ MapGet(result.Headings, "h1") = 0

\* the node whose traverseNode call is the next step
AtNode(phase) == IF pc = phase /\ stack # <<>> THEN Head(stack) ELSE 0

\* the node whose call was the last step of the running traversal
LastEntered(phase) == IF pc = phase /\ visited # <<>> THEN visited[Len(visited)] ELSE 0

\* C6: on a doctype literal, trimmed and case-folded, detectHTMLVersion gives
\* HTML5 for exactly "html", else XHTML when it contains "xhtml", else
\* HTML 4.01 when it contains "html 4", else HTML5 (also for the empty
\* literal); a literal with both "xhtml" and "html 4" gives XHTML.
C6_DetectHTMLVersion ==
    LET n == LastEntered("analyzeDocument")
        literal == ToLower(TrimSpace(doc[n].Data))
    IN (n # 0 /\ doc[n].Type = "DoctypeNode") =>
        /\ literal = "html" => result.HTMLVersion = "HTML5"
        /\ (literal # "html" /\ Contains(literal, "xhtml")) => result.HTMLVersion = "XHTML"
        /\ (literal # "html" /\ ~Contains(literal, "xhtml") /\ Contains(literal, "html 4"))
                => result.HTMLVersion = "HTML 4.01"
        /\ (literal # "html" /\ ~Contains(literal, "xhtml") /\ ~Contains(literal, "html 4"))
                => result.HTMLVersion = "HTML5"

\* a doctype with both "xhtml" and "html 4" in it has been classified XHTML
C6_Witness ==
    LET n == LastEntered("analyzeDocument")
    IN /\ n # 0
       /\ doc[n].Type = "DoctypeNode"
       /\ Contains(doc[n].Data, "xhtml")
       /\ Contains(doc[n].Data, "HTML 4")
       /\ result.HTMLVersion = "XHTML"

\* the type and name of an input as the page states them; an absent and an
\* empty type attribute both leave the type unstated
StatedType(n) ==
    LET idx == {i \in 1..Len(doc[n].Attr) : doc[n].Attr[i].Key = "type"}
    IN IF idx = {} THEN "" ELSE ToLower(doc[n].Attr[SetMin(idx)].Val)

StatedName(n) ==
    LET idx == {i \in 1..Len(doc[n].Attr) : doc[n].Attr[i].Key = "name"}
    IN IF idx = {} THEN "" ELSE ToLower(doc[n].Attr[SetMin(idx)].Val)

\* the login-form rule on the descendants of a form
LoginFormRule(form) ==
    /\ \E i \in Descendants(form) : IsElement(i, "input") /\ StatedType(i) = "password"
    /\ \E i \in Descendants(form) :
        /\ IsElement(i, "input")
        /\ StatedType(i) \in {"", "text", "email"}
        /\ \E word \in {"user", "email", "login"} : Contains(StatedName(i), word)

\* C7: a form is a login form if and only if it has a descendant input of
\* type password and a descendant input with "user", "email" or "login" in its
\* name whose type is absent, text or email: traverseNode raises HasLoginForm
\* at a form exactly when the rule holds of it.
C7_IsLoginForm ==
    [][(AtNode("analyzeDocument") # 0
        /\ IsElement(AtNode("analyzeDocument"), "form")
        /\ ~result.HasLoginForm)
       => (result'.HasLoginForm <=> LoginFormRule(AtNode("analyzeDocument")))]_vars

\* a form holding nothing but a password input named user_password was
\* entered and is not taken for a login form
C7_Witness ==
    LET n == LastEntered("analyzeDocument")
    IN /\ n # 0
       /\ IsElement(n, "form")
       /\ Cardinality(Descendants(n)) = 1
       /\ \E i \in Descendants(n) :
            IsElement(i, "input") /\ StatedType(i) = "password"
            /\ StatedName(i) = "user_password"
       /\ ~result.HasLoginForm

\* C8: for each anchor processLink counts, exactly one of InternalLinks and
\* ExternalLinks grows, by one: InternalLinks when the resolved host is the
\* base host (string equality), ExternalLinks otherwise; nothing else changes.
C8_ProcessLinkClassifies ==
    [][LET n == AtNode("analyzeDocument")
       IN (n # 0 /\ HasReference(n)) =>
            IF SameHost(HostOf(targetURL), Reference(n))
            THEN result' = [result EXCEPT !.InternalLinks = @ + 1]
            ELSE result' = [result EXCEPT !.ExternalLinks = @ + 1]]_vars

\* on the page at port 8080, an absolute link to the same name without the
\* port has been counted external
C8_Witness ==
    LET n == LastEntered("analyzeDocument")
    IN /\ n # 0
       /\ HasReference(n)
       /\ Reference(n) = "https://example.com/contact"
       /\ targetURL = SecondTargetURL
       /\ result.ExternalLinks = 1
       /\ result.InternalLinks = 0

\* the link targets of the nodes of a sequence, in its order
RECURSIVE TargetsOf(_)
TargetsOf(ns) ==
    IF ns = <<>> THEN <<>>
    ELSE LET n == Head(ns)
         IN (IF n \in HTTPAnchors THEN <<Resolved(targetURL, Reference(n))>> ELSE <<>>)
            \o TargetsOf(Tail(ns))

Unparseable(n) ==
    /\ IsElement(n, "a")
    /\ HrefValues(n) # <<>>
    /\ \A i \in 1..Len(HrefValues(n)) : HrefValues(n)[i] \in UnparseableHrefs

TitleWithText(n) ==
    /\ IsElement(n, "title")
    /\ doc[n].FirstChild # 0
    /\ doc[doc[n].FirstChild].Type = "TextNode"

\* the texts of the model without their leading and trailing white space
Trimmed(text) ==
    CASE text = "  Page  " -> "Page"
      [] text = "Other\n" -> "Other"
      [] OTHER -> text

\* the title a sequence of nodes, taken in its order, leaves: the trimmed
\* text of the last title in it that has a text for first child, else ""
RECURSIVE TitleAfter(_)
TitleAfter(ns) ==
    IF ns = <<>> THEN ""
    ELSE IF TitleWithText(ns[Len(ns)])
    THEN Trimmed(doc[doc[ns[Len(ns)]].FirstChild].Data)
    ELSE TitleAfter(SubSeq(ns, 1, Len(ns) - 1))

\* C11: Title is the trimmed text of the first child of the last title
\* element, in document order, whose first child is a text node; a title
\* without such a child leaves Title as it is; Title is "" when no title
\* qualifies.  It holds of the nodes entered so far at every step of the
\* traversal, and of the whole tree after it.
C11_TitleLastWins ==
    /\ pc = "analyzeDocument" => result.Title = TitleAfter(visited)
    /\ pc \in {"extractLinks", "extracted"} => result.Title = TitleAfter(PreOrder(1))

\* two titles with different texts were entered: the Title is the text of
\* the later one, without the white space around it
C11_Witness ==
    /\ pc = "extracted"
    /\ result.Title = "Page"
    /\ \E a, b \in Nodes :
        /\ TitleWithText(a) /\ doc[doc[a].FirstChild].Data = "Other\n"
        /\ TitleWithText(b) /\ doc[doc[b].FirstChild].Data = "  Page  "
        /\ \E i, j \in 1..Len(doc) : i < j /\ PreOrder(1)[i] = a /\ PreOrder(1)[j] = b

-----------------------------------------------------------------------------
(* Claims on the Result AnalyzeURL returns.                                *)

\* AnalyzeURL has returned a Result (and no error)
Returned == ret.returned /\ ret.result # <<>>

\* C2: in every Result AnalyzeURL returns, InaccessibleLinks is at most the
\* number of link targets handed to checkLinksAccessibility, which is at most
\* InternalLinks + ExternalLinks; and the targets checked are those of the
\* anchors counted, so that the two numbers are the same.
C2_ProbedAreCounted ==
    Returned =>
        /\ ret.result[1].InaccessibleLinks <= Len(links)
        /\ Len(links) <= ret.result[1].InternalLinks + ret.result[1].ExternalLinks
        /\ Len(links) = ret.result[1].InternalLinks + ret.result[1].ExternalLinks

\* C4: in every Result of a successful analysis the heading map has an entry
\* for each of the six levels h1..h6, 0 for a level absent from the page.
C4_AllLevelsPresent ==
    Returned =>
        /\ DOMAIN ret.result[1].Headings = HeadingTags
        /\ \A tag \in HeadingTags :
            (~\E n \in Nodes : IsElement(n, tag)) => MapGet(ret.result[1].Headings, tag) = 0

\* C5: HTMLVersion of every Result returned is HTML5, HTML 4.01 or XHTML and
\* never empty; it is HTML5 for a page without a document-type node.
C5_VersionNeverEmpty ==
    Returned =>
        /\ ret.result[1].HTMLVersion \in {"HTML5", "HTML 4.01", "XHTML"}
        /\ (~\E n \in Nodes : doc[n].Type = "DoctypeNode")
                => ret.result[1].HTMLVersion = "HTML5"

-----------------------------------------------------------------------------
(* Claims on checkLinksAccessibility and its worker pool.                  *)

\* checkLinksAccessibility is running: called and not returned
Checking == pc = "range results"

\* the worker goroutines started
Started == DOMAIN workers

\* the smaller of the configured limit and the number of targets
Limit == IF config.MaxWorkers <= Len(links) THEN config.MaxWorkers ELSE Len(links)

\* C12: called with a non-empty list of n targets and the limit W,
\* checkLinksAccessibility starts exactly min(W, n) workers, and never
\* fewer than 1.
C12_WorkersStarted ==
    Checking =>
        /\ Cardinality(Started) = Limit
        /\ Cardinality(Started) >= 1

\* the workers with a check in flight: started and not yet reported
InFlight == {w \in Started : workers[w].pc = "checkSingleLink"}

\* C13: in every state of a run the number of link checks in flight is at
\* most min(MaxWorkers, number of targets).
C13_InFlightBounded == Cardinality(InFlight) <= Limit

\* with more targets than workers, the one worker has a check in flight
\* while another target waits in the jobs channel
C13_Witness ==
    /\ Checking
    /\ config.MaxWorkers = 1
    /\ Len(links) = 2
    /\ Cardinality(InFlight) = 1
    /\ Len(jobs) = 1

\* checkLinksAccessibility was called and has returned
Checked == pc = "returned" /\ Returned /\ Len(links) > 0

\* the positions of the list whose target fails its probe
Failing == {i \in 1..Len(links) : links[i] \in unreachable}

\* C14: when the context is never cancelled, checkLinksAccessibility probes
\* every target of the list exactly once and returns the number of targets
\* whose probe found them unreachable, whatever the worker limit and the
\* interleaving of the workers.
C14_EveryTargetProbedOnce ==
    (Checked /\ ~ctxDone) =>
        /\ probed = links
        /\ ret.result[1].InaccessibleLinks = Cardinality(Failing)

\* every goroutine of the pool has come to its end
Finished ==
    /\ pc = "returned"
    /\ sender.returned
    /\ \A w \in Started : workers[w].pc = "done"

\* C15: under fair scheduling, every probe returning, checkLinksAccessibility
\* always terminates, cancelled or not: the call returns and every goroutine
\* ends (no deadlock), results is never closed while a worker may still send
\* on it (no panic), and the count returned is between 0 and the number of
\* targets.
C15_Terminates ==
    /\ Checking ~> Finished
    /\ [](resultsClosed => \A w \in Started : workers[w].pc = "done")
    /\ [](Checked => /\ ret.result[1].InaccessibleLinks >= 0
                     /\ ret.result[1].InaccessibleLinks <= Len(links))

\* the context was cancelled while targets were still to be dispatched: the
\* call has returned, with a target never probed
C15_Witness ==
    /\ Checked
    /\ Finished
    /\ ctxDone
    /\ config.MaxWorkers >= 1
    /\ Len(probed) = 1
    /\ Len(links) = 2

\* C16: called with an empty list, checkLinksAccessibility returns 0 at
\* once: it starts no worker and no other goroutine, creates (and so closes)
\* no channel, and issues no probe.
C16_EmptyListReturnsZero ==
    links = <<>> =>
        /\ pc \in {"checkLinksAccessibility", "returned"}
        /\ inaccessible = 0
        /\ DOMAIN workers = {}
        /\ wg = 0
        /\ ~sender.started
        /\ ~jobsClosed
        /\ ~resultsClosed
        /\ probed = <<>>

\* the call with the empty list has returned, on a configuration that
\* allows workers
C16_Witness ==
    /\ links = <<>>
    /\ pc = "returned"
    /\ config.MaxWorkers >= 1

\* the probe has returned to its caller
ProbeReturned == pc = "returned" /\ probe.link # ""

\* client.Do returned a response and no error: the probe completed
Completed == probe.err = ""

\* the answer the last request of the probe got
LastAnswer == probe.chain[probe.reqs]

\* C17: checkSingleLink returns true exactly when the probe completes with a
\* final status s, 200 <= s < 400; every other outcome returns false: a
\* status of 400 or more or below 200, a malformed address, a request that
\* got no answer (DNS or connection failure, timeout), a cancelled context,
\* too many redirects; the value returned is the boolean alone.
C17_ReachableIffFinalStatus ==
    ProbeReturned =>
        /\ probe.accessible \in BOOLEAN
        /\ probe.accessible <=>
               /\ Completed
               /\ probe.resp.status >= 200
               /\ probe.resp.status < 400
        /\ Parse(probe.link).err => ~probe.accessible
        /\ (probe.reqs > 0 /\ LastAnswer.failure # "") => ~probe.accessible
        /\ probe.err \in {"context canceled", "too many redirects"} => ~probe.accessible
        /\ (Completed /\ (probe.resp.status < 200 \/ probe.resp.status >= 400))
               => ~probe.accessible

\* a redirect was followed to a 304, and the target is reachable
C17_Witness ==
    /\ ProbeReturned
    /\ probe.accessible
    /\ probe.reqs = 2
    /\ probe.resp.status = 304

\* the redirects the chain of the probed target needs
Redirects == Len(probe.chain) - 1

\* the answer the chain of the probed target ends with
FinalAnswer == probe.chain[Len(probe.chain)]

\* the chain ends in a status in [200, 400) that sends the client no further
EndsReachable ==
    /\ FinalAnswer.failure = ""
    /\ FinalAnswer.location = ""
    /\ FinalAnswer.status >= 200
    /\ FinalAnswer.status < 400

\* the probe was of an address a request is sent to, and was never cancelled
Probed ==
    /\ ProbeReturned
    /\ probe.err \notin {"parse", "unsupported protocol scheme", "no Host in request URL"}
    /\ ~ctxDone

\* C18: with the redirect ceiling R = MaxRedirects, a target whose chain of
\* k redirects ends in a status in [200, 400) is classified reachable for
\* every k <= R, and unreachable when its chain needs more than R redirects.
C18_RedirectCeiling ==
    (Probed /\ EndsReachable) =>
        (probe.accessible <=> Redirects <= config.MaxRedirects)

\* AnalyzeURL returned an error
Failed == ret.returned /\ ret.err # ""

\* the traversal of the page was run
Traversed == visited # <<>>

\* a probe of a link was prepared or issued
ProbeIssued == sender.started \/ DOMAIN workers # {} \/ probed # <<>>

\* C19: when the page fetch fails (invalid address, transport error,
\* timeout, cancelled context, a status other than 200, a parse error),
\* AnalyzeURL returns a nil Result with a non-nil error: no partial Result,
\* no traversal, no link probe; AnalyzeURL leaves the fetch either into the
\* traversal or by that return, and returns a Result only after a traversal.
C19_FetchFailureReturnsNil ==
    /\ [](Failed => /\ ret.result = <<>>
                    /\ ~Traversed
                    /\ links = <<>>
                    /\ ~ProbeIssued)
    /\ [](ret.returned => (Failed \/ (ret.result # <<>> /\ Traversed)))
    /\ [][(pc \in {"AnalyzeURL", "fetchHTML"} /\ pc' \notin {pc, "fetchHTML", "analyzeDocument"})
              => (ret'.returned /\ ret'.err # "" /\ ret'.result = <<>>)]_vars

\* the fetch of a page with nodes was answered 404: the error is returned
C19_Witness ==
    /\ Failed
    /\ ret.err = "failed to fetch HTML: 404 Not Found"
    /\ Cardinality(DOMAIN doc) > 1
    /\ pc = "returned"

\* ServeAnalyze wrote the record of an analysis, failed or not
Answered == pc = "responded" /\ ret.returned

\* the zero value of a member of the record, as json.Encoder writes it
ZeroMember(k) ==
    CASE k \in {"url", "html_version", "title", "error"} -> ""
      [] k = "headings" -> [null |-> TRUE, object |-> EmptyMap]
      [] k \in {"internal_links", "external_links", "inaccessible_links"} -> 0
      [] k = "has_login_form" -> FALSE

\* C20: when the whole analysis fails, the record ServeAnalyze emits carries
\* the error string and every other field holds its zero value; the error
\* member is absent from every successful result.
C20_ErrorRecordOnlyError ==
    /\ (Answered /\ ret.err # "") =>
           /\ "error" \in DOMAIN written.body
           /\ written.body["error"] = ret.err
           /\ \A k \in DOMAIN written.body \ {"error"} :
                  written.body[k] = ZeroMember(k)
    /\ (Answered /\ ret.err = "") => "error" \notin DOMAIN written.body

\* the objects a call holds a reference to
References(c) == {calls[c].result, calls[c].client, calls[c].jobs, calls[c].results} \ {0}

\* the Result of a call, from its own page and the outcomes of its links
ExpectedResult(c) ==
    [URL |-> c,
     InternalLinks |-> Len(calls[c].page),
     InaccessibleLinks |-> Cardinality({i \in DOMAIN calls[c].page : ~calls[c].page[i]})]

\* C21: concurrent AnalyzeURL calls on one Analyzer do not interfere: each
\* call has its own Result, its own probe client and its own two queues, no
\* object a call allocated is read or written by another call, and the
\* Result a call returned is, and stays, the one its own page and link
\* outcomes determine, under every interleaving.
C21_CallsDoNotInterfere ==
    /\ \A a \in DOMAIN heap :
           heap[a].kind # "Analyzer" => heap[a].users \subseteq {heap[a].by}
    /\ \A c \in Calls : \A d \in Calls \ {c} : References(c) \cap References(d) = {}
    /\ \A c \in Calls : \A a \in References(c) : heap[a].by = c
    /\ \A c \in Calls :
           calls[c].pc = "returned" =>
               /\ calls[c].returned = <<ExpectedResult(c)>>
               /\ heap[calls[c].result].val = ExpectedResult(c)

\* one call has returned its Result while the pool of the other call, on a
\* page with other outcomes, is still running
C21_Witness ==
    /\ calls # <<>>
    /\ calls["first"].pc = "returned"
    /\ calls["first"].page = <<FALSE>>
    /\ calls["second"].pc = "range results"
    /\ calls["second"].page = <<TRUE>>
    /\ heap[calls["second"].results].val.buf # <<>>

\* the forms of the tree that satisfy the login-form rule
LoginForms == {n \in Nodes : IsElement(n, "form") /\ LoginFormRule(n)}

\* C22: HasLoginForm is the OR over the forms of the tree: throughout the
\* traversal it is true exactly when a form already entered satisfies the
\* login-form rule (so at the end, when some form of the tree does), and
\* once set it is never reset, whatever the order of the forms.
C22_LoginFormIsOr ==
    /\ [](result.HasLoginForm <=> (Entered("analyzeDocument") \cap LoginForms # {}))
    /\ [][result.HasLoginForm => result'.HasLoginForm]_vars

\* a form that does not qualify was entered after one that does, and the
\* flag is still set
C22_Witness ==
    LET n == LastEntered("analyzeDocument")
    IN /\ n # 0
       /\ IsElement(n, "form")
       /\ ~LoginFormRule(n)
       /\ \E f \in Range(visited) \cap LoginForms : n \notin Descendants(f)
       /\ result.HasLoginForm

\* the results sent on the results channel so far
Reported == Len(results) + processed

\* C23: results is closed only after every started worker has signalled
\* completion, and a worker has sent the result of every target it took
\* before it signals; so the collecting loop cannot end while a worker can
\* still report, and when the call returns every worker has exited and the
\* sender has closed jobs: no goroutine of the call is still running.
C23_ClosedAfterWorkers ==
    /\ resultsClosed => \A w \in Started : workers[w].pc = "done"
    /\ \A w \in Started : workers[w].pc = "done" => workers[w].url = ""
    /\ (\A w \in Started : workers[w].pc = "done") => Reported = Len(probed)
    /\ Checked =>
           /\ \A w \in Started : workers[w].pc = "done"
           /\ jobsClosed
           /\ sender.returned

\* C24: once the context has been cancelled the sender enqueues no further
\* target: every target put on jobs was put there in a state where the
\* context was not cancelled.
C24_NoEnqueueAfterCancel ==
    [][(sender.started /\ sender'.i > sender.i) => ~ctxDone]_vars

\* C25: a worker takes targets from jobs until jobs is drained or the
\* context is cancelled: after the cancellation no worker takes a target
\* still waiting in jobs and starts a check on it.
C25_NoCheckAfterCancel ==
    [][Len(probed') > Len(probed) => ~ctxDone]_vars

\* a direct call of checkLinksAccessibility on a non-empty list has returned
CallReturned == pc = "returned" /\ sender.started

\* C26: the count is order-independent: with no cancellation the value
\* checkLinksAccessibility returns is the number of targets of the list
\* whose outcome is unreachable, the same in every interleaving of the
\* workers and every arrival order of the results, and the same for every
\* worker limit W >= 1.
C26_CountIsOrderIndependent ==
    (CallReturned /\ ~ctxDone /\ config.MaxWorkers >= 1) =>
        inaccessible = Cardinality(Failing)

\* two workers checked two targets, the first of them unreachable
C26_Witness ==
    /\ CallReturned
    /\ ~ctxDone
    /\ config.MaxWorkers = 2
    /\ Len(links) = 2
    /\ links[1] # links[2]
    /\ unreachable = {links[1]}
    /\ inaccessible = 1

\* the Result of call c
ResultOf(c) == heap[calls[c].result]

\* the goroutines of the pool of a call
PoolGoroutines == {"sender", "worker", "closer", "collector"}

\* the call is in its probing phase: the pool is set up, the call not returned
Probing(c) == calls[c].pc = "range results"

\* C27: the goroutines of the pool share the two queues and nothing else
\* that is written: no worker, sender, closer or collector step reads or
\* writes the Result; InaccessibleLinks is written exactly once, by
\* AnalyzeURL, when checkLinksAccessibility has returned, and the probing
\* phase leaves every other field of the Result as it was.
C27_PoolLeavesResultAlone ==
    /\ [](\A c \in Calls : calls[c].result # 0 =>
              /\ ResultOf(c).goroutines = {"AnalyzeURL"}
              /\ Probing(c) => "InaccessibleLinks" \notin Range(ResultOf(c).written)
              /\ Cardinality({i \in DOMAIN ResultOf(c).written :
                                  ResultOf(c).written[i] = "InaccessibleLinks"}) <= 1)
    /\ [](\A a \in DOMAIN heap :
              /\ heap[a].goroutines \cap PoolGoroutines # {}
                     => heap[a].kind \in {"jobs", "results", "Client"}
              /\ heap[a].kind = "Client" => heap[a].written = <<>>)
    /\ [][\A c \in Calls : Probing(c) =>
              \/ ResultOf(c)' = ResultOf(c)
              \/ /\ calls'[c].pc = "returned"
                 /\ heap[calls[c].results].val.closed
                 /\ ResultOf(c).val' = [ResultOf(c).val EXCEPT
                                            !.InaccessibleLinks = calls[c].inaccessible]
                 /\ ResultOf(c).written' = Append(ResultOf(c).written,
                                                  "InaccessibleLinks")]_vars

\* the pool of a call has reported an unreachable link and AnalyzeURL has
\* stored the count in the Result
C27_Witness ==
    /\ calls # <<>>
    /\ calls["first"].pc = "returned"
    /\ calls["first"].page = <<FALSE>>
    /\ ResultOf("first").val.InaccessibleLinks = 1
    /\ ResultOf("first").written = <<"InternalLinks", "InaccessibleLinks">>

\* the targets the sender has put on jobs
Dispatched == sender.i - 1

\* C28: cancelled or not, each target put on jobs is taken by exactly one
\* worker and yields exactly one result, so at the return the results
\* collected are as many as the targets dispatched; a target taken after
\* the cancellation is still reported, as unreachable.
C28_OneResultPerDispatched ==
    /\ [](Dispatched = Len(probed) + Len(jobs))
    /\ [](Len(probed) = Reported + Cardinality(InFlight))
    /\ [](Checked => /\ processed = Dispatched
                     /\ results = <<>>)
    /\ [][\A w \in Started :
            (workers[w].pc = "checkSingleLink" /\ workers[w].cancelled
                /\ workers'[w].pc # "checkSingleLink")
              => (results' = Append(results, FALSE))]_vars

\* the sender is about to send on jobs
SenderSending == sender.started /\ ~sender.returned /\ sender.i <= Len(links)

\* C29: jobs is closed exactly once, by the sender as it returns; results
\* is closed exactly once, and only when every worker has finished; nothing
\* is sent on a closed channel; and as both channels have the capacity of
\* the number of targets, no send on either ever blocks: a sender or a
\* worker about to send finds room, and at most that many results are
\* buffered.
C29_ChannelSafety ==
    /\ [][/\ jobsClosed => jobsClosed'
          /\ jobsClosed' # jobsClosed => (~sender.returned /\ sender'.returned)
          /\ (sender.started /\ ~sender.returned /\ sender'.returned)
                 => (~jobsClosed /\ jobsClosed')]_vars
    /\ [][/\ ((resultsClosed /\ pc = "range results") => resultsClosed')
          /\ resultsClosed' # resultsClosed =>
                 (~resultsClosed /\ wg = 0 /\ \A w \in Started : workers[w].pc = "done")]_vars
    /\ [][/\ Len(jobs') > Len(jobs) => ~jobsClosed
          /\ Len(results') > Len(results) => ~resultsClosed]_vars
    /\ [](jobsClosed => ~SenderSending)
    /\ [](resultsClosed => InFlight = {})
    /\ [](SenderSending => Len(jobs) < Len(links))
    /\ [](InFlight # {} => Len(results) < Len(links))
    /\ [](Len(results) <= Len(links) /\ Len(jobs) <= Len(links))

\* a call on two targets has returned: both channels are closed and both
\* results were collected
C29_Witness ==
    /\ CallReturned
    /\ Len(links) = 2
    /\ jobsClosed
    /\ resultsClosed
    /\ processed = 2

\* the call runs with a worker limit that allows no worker
NoWorkerAllowed == Len(links) > 0 /\ config.MaxWorkers <= 0

\* C30: with a non-empty list and MaxWorkers <= 0, checkLinksAccessibility
\* starts no worker and performs no check, yet terminates (the collecting
\* loop ends, the sender closes jobs and returns) and returns 0: every
\* target is reported as reachable.
C30_NoWorkerReturnsZero ==
    /\ [](NoWorkerAllowed => /\ Started = {}
                             /\ wg = 0
                             /\ probed = <<>>
                             /\ results = <<>>
                             /\ processed = 0
                             /\ inaccessible = 0)
    /\ NoWorkerAllowed ~> (pc = "returned" /\ inaccessible = 0 /\ sender.returned
                               /\ jobsClosed)

\* the call on targets that are all unreachable has returned 0 under a
\* negative limit
C30_Witness ==
    /\ NoWorkerAllowed
    /\ config.MaxWorkers < 0
    /\ CallReturned
    /\ unreachable = Range(links)
    /\ inaccessible = 0
    /\ sender.returned

=============================================================================
